---- MODULE Spec2Model ----
(***************************************************************************)
(* A model of the chess rules engine: Board (reversible make/undo),        *)
(* MoveGenerator, ZobristHasher, GameState and MinimaxSearcher.            *)
(*                                                                         *)
(* Squares are indexed 0..63, row 0 = rank 8, square = row * 8 + col, as   *)
(* in engine/constants.py.  A piece is the tuple <<color, piece_type>>;    *)
(* an empty square holds NoPiece.  Python's None is modelled by None (-1)  *)
(* for optional integers and by the empty tuple for optional tuples/lists. *)
(***************************************************************************)
EXTENDS Integers, Sequences, FiniteSets, TLC

\* ------------------------------------------------------------------------
\* engine/constants.py
\* ------------------------------------------------------------------------
WHITE == 0
BLACK == 1

PAWN == 0
KNIGHT == 1
BISHOP == 2
ROOK == 3
QUEEN == 4
KING == 5

\* Python's None for Optional[int] / Optional[PieceType] / Optional[Color]
None == -1

\* Python's None for Optional[Piece] (an empty square)
NoPiece == <<>>

sq(row, col) == row * 8 + col

row_of(square) == square \div 8

col_of(square) == square % 8

Opponent(color) == IF color = WHITE THEN BLACK ELSE WHITE

\* list indexing as Python does it: a negative index counts from the end
PyIndex(i) == IF i < 0 THEN i + 64 ELSE i

\* ------------------------------------------------------------------------
\* engine/move.py
\* ------------------------------------------------------------------------
Move(from_sq, to_sq, promotion, is_castle, is_en_passant) ==
    [from_sq |-> from_sq, to_sq |-> to_sq, promotion |-> promotion,
     is_castle |-> is_castle, is_en_passant |-> is_en_passant]

\* Move.__eq__: identity is (from_sq, to_sq, promotion); the flags do not count
MoveEq(a, b) ==
    /\ a.from_sq = b.from_sq
    /\ a.to_sq = b.to_sq
    /\ a.promotion = b.promotion

\* "move in moves" for a Python list of Move (uses Move.__eq__)
MoveIn(m, moves) == \E i \in 1..Len(moves) : MoveEq(moves[i], m)

\* ------------------------------------------------------------------------
\* engine/board.py
\* ------------------------------------------------------------------------
RightKeys == {"K", "Q", "k", "q"}

\* the update of the rights that knows white's corners only
_rook_castling_update_white_corners(rights, square) ==
    IF square = sq(7, 7) THEN [rights EXCEPT !["K"] = FALSE]
    ELSE IF square = sq(7, 0) THEN [rights EXCEPT !["Q"] = FALSE]
    ELSE rights

_rook_castling_update(rights, square) ==
    IF square = sq(7, 7) THEN [rights EXCEPT !["K"] = FALSE]
    ELSE IF square = sq(7, 0) THEN [rights EXCEPT !["Q"] = FALSE]
    ELSE IF square = sq(0, 7) THEN [rights EXCEPT !["k"] = FALSE]
    ELSE IF square = sq(0, 0) THEN [rights EXCEPT !["q"] = FALSE]
    ELSE rights

\* the square of the pawn an en-passant capture removes (may be out of 0..63
\* when the flag is carried by a move that is no en-passant capture)
ep_cap_sq(color, move) ==
    (row_of(move.to_sq) + (IF color = WHITE THEN 1 ELSE -1)) * 8 + col_of(move.to_sq)

\* Board.make_move raises (AssertionError on an empty from-square, IndexError
\* on an en-passant victim square past the end of the list) before it has
\* changed anything
make_move_raises(b, move) ==
    \/ b.squares[move.from_sq] = NoPiece
    \/ /\ move.is_en_passant
       /\ ep_cap_sq(b.squares[move.from_sq][1], move) >= 64

\* castling: the rook's (from, to) for a king destination, <<>> if none
CastleRook(to_sq) ==
    IF to_sq = sq(7, 6) THEN <<sq(7, 7), sq(7, 5)>>
    ELSE IF to_sq = sq(7, 2) THEN <<sq(7, 0), sq(7, 3)>>
    ELSE IF to_sq = sq(0, 6) THEN <<sq(0, 7), sq(0, 5)>>
    ELSE IF to_sq = sq(0, 2) THEN <<sq(0, 0), sq(0, 3)>>
    ELSE <<>>

Abs(x) == IF x < 0 THEN -x ELSE x

\* Board.make_move without the reset of ep_square
make_move_keeps_ep(b, move) ==
    LET piece == b.squares[move.from_sq]
        color == piece[1]
        piece_type == piece[2]
        captured == b.squares[move.to_sq]
        epsq == ep_cap_sq(color, move)
        ep_captured == IF move.is_en_passant
                       THEN <<epsq, b.squares[PyIndex(epsq)]>>
                       ELSE <<>>
        undo == [move |-> move,
                 captured |-> captured,
                 ep_captured |-> ep_captured,
                 castling_rights |-> b.castling_rights,
                 ep_square |-> b.ep_square,
                 halfmove_clock |-> b.halfmove_clock,
                 fullmove_number |-> b.fullmove_number]
        \* en passant capture: remove the captured pawn
        s1 == IF move.is_en_passant
              THEN [b.squares EXCEPT ![PyIndex(epsq)] = NoPiece]
              ELSE b.squares
        \* move the piece
        MovePiece(s) ==
            [[s EXCEPT ![move.to_sq] = piece] EXCEPT ![move.from_sq] = NoPiece]
        \* promotion
        Promote(s) ==
            IF move.promotion # None
            THEN [s EXCEPT ![move.to_sq] = <<color, move.promotion>>]
            ELSE s
        \* castling: also move the rook
        rk == CastleRook(move.to_sq)
        MoveRook(s) ==
            IF move.is_castle /\ rk # <<>>
            THEN [[s EXCEPT ![rk[2]] = s[rk[1]]] EXCEPT ![rk[1]] = NoPiece]
            ELSE s
        from_row == row_of(move.from_sq)
        to_row == row_of(move.to_sq)
        ep == IF piece_type = PAWN /\ Abs(to_row - from_row) = 2
              THEN ((from_row + to_row) \div 2) * 8 + col_of(move.from_sq)
              ELSE b.ep_square
        r1 == IF piece_type = KING
              THEN IF color = WHITE
                   THEN [b.castling_rights EXCEPT !["K"] = FALSE, !["Q"] = FALSE]
                   ELSE [b.castling_rights EXCEPT !["k"] = FALSE, !["q"] = FALSE]
              ELSE b.castling_rights
        RookMoved(r) ==
            IF piece_type = ROOK THEN _rook_castling_update(r, move.from_sq) ELSE r
        RookCaptured(r) ==
            IF captured # NoPiece THEN _rook_castling_update(r, move.to_sq) ELSE r
        clock == IF piece_type = PAWN \/ captured # NoPiece \/ move.is_en_passant
                 THEN 0
                 ELSE b.halfmove_clock + 1
    IN  [squares |-> MoveRook(Promote(MovePiece(s1))),
         turn |-> Opponent(color),
         castling_rights |-> RookCaptured(RookMoved(r1)),
         ep_square |-> ep,
         halfmove_clock |-> clock,
         fullmove_number |-> IF color = BLACK THEN b.fullmove_number + 1
                             ELSE b.fullmove_number,
         _history |-> Append(b._history, undo)]

\* Board.make_move leaving the castling rights of a king that moves
make_move_king_keeps_rights(b, move) ==
    LET piece == b.squares[move.from_sq]
        color == piece[1]
        piece_type == piece[2]
        captured == b.squares[move.to_sq]
        epsq == ep_cap_sq(color, move)
        ep_captured == IF move.is_en_passant
                       THEN <<epsq, b.squares[PyIndex(epsq)]>>
                       ELSE <<>>
        undo == [move |-> move,
                 captured |-> captured,
                 ep_captured |-> ep_captured,
                 castling_rights |-> b.castling_rights,
                 ep_square |-> b.ep_square,
                 halfmove_clock |-> b.halfmove_clock,
                 fullmove_number |-> b.fullmove_number]
        \* en passant capture: remove the captured pawn
        s1 == IF move.is_en_passant
              THEN [b.squares EXCEPT ![PyIndex(epsq)] = NoPiece]
              ELSE b.squares
        \* move the piece
        MovePiece(s) ==
            [[s EXCEPT ![move.to_sq] = piece] EXCEPT ![move.from_sq] = NoPiece]
        \* promotion
        Promote(s) ==
            IF move.promotion # None
            THEN [s EXCEPT ![move.to_sq] = <<color, move.promotion>>]
            ELSE s
        \* castling: also move the rook
        rk == CastleRook(move.to_sq)
        MoveRook(s) ==
            IF move.is_castle /\ rk # <<>>
            THEN [[s EXCEPT ![rk[2]] = s[rk[1]]] EXCEPT ![rk[1]] = NoPiece]
            ELSE s
        from_row == row_of(move.from_sq)
        to_row == row_of(move.to_sq)
        ep == IF piece_type = PAWN /\ Abs(to_row - from_row) = 2
              THEN ((from_row + to_row) \div 2) * 8 + col_of(move.from_sq)
              ELSE None
        r1 == b.castling_rights
        RookMoved(r) ==
            IF piece_type = ROOK THEN _rook_castling_update(r, move.from_sq) ELSE r
        RookCaptured(r) ==
            IF captured # NoPiece THEN _rook_castling_update(r, move.to_sq) ELSE r
        clock == IF piece_type = PAWN \/ captured # NoPiece \/ move.is_en_passant
                 THEN 0
                 ELSE b.halfmove_clock + 1
    IN  [squares |-> MoveRook(Promote(MovePiece(s1))),
         turn |-> Opponent(color),
         castling_rights |-> RookCaptured(RookMoved(r1)),
         ep_square |-> ep,
         halfmove_clock |-> clock,
         fullmove_number |-> IF color = BLACK THEN b.fullmove_number + 1
                             ELSE b.fullmove_number,
         _history |-> Append(b._history, undo)]

\* Board.make_move resetting halfmove_clock on pawn moves only
make_move_clock_reset_on_pawn_only(b, move) ==
    LET piece == b.squares[move.from_sq]
        color == piece[1]
        piece_type == piece[2]
        captured == b.squares[move.to_sq]
        epsq == ep_cap_sq(color, move)
        ep_captured == IF move.is_en_passant
                       THEN <<epsq, b.squares[PyIndex(epsq)]>>
                       ELSE <<>>
        undo == [move |-> move,
                 captured |-> captured,
                 ep_captured |-> ep_captured,
                 castling_rights |-> b.castling_rights,
                 ep_square |-> b.ep_square,
                 halfmove_clock |-> b.halfmove_clock,
                 fullmove_number |-> b.fullmove_number]
        \* en passant capture: remove the captured pawn
        s1 == IF move.is_en_passant
              THEN [b.squares EXCEPT ![PyIndex(epsq)] = NoPiece]
              ELSE b.squares
        \* move the piece
        MovePiece(s) ==
            [[s EXCEPT ![move.to_sq] = piece] EXCEPT ![move.from_sq] = NoPiece]
        \* promotion
        Promote(s) ==
            IF move.promotion # None
            THEN [s EXCEPT ![move.to_sq] = <<color, move.promotion>>]
            ELSE s
        \* castling: also move the rook
        rk == CastleRook(move.to_sq)
        MoveRook(s) ==
            IF move.is_castle /\ rk # <<>>
            THEN [[s EXCEPT ![rk[2]] = s[rk[1]]] EXCEPT ![rk[1]] = NoPiece]
            ELSE s
        from_row == row_of(move.from_sq)
        to_row == row_of(move.to_sq)
        ep == IF piece_type = PAWN /\ Abs(to_row - from_row) = 2
              THEN ((from_row + to_row) \div 2) * 8 + col_of(move.from_sq)
              ELSE None
        r1 == IF piece_type = KING
              THEN IF color = WHITE
                   THEN [b.castling_rights EXCEPT !["K"] = FALSE, !["Q"] = FALSE]
                   ELSE [b.castling_rights EXCEPT !["k"] = FALSE, !["q"] = FALSE]
              ELSE b.castling_rights
        RookMoved(r) ==
            IF piece_type = ROOK THEN _rook_castling_update(r, move.from_sq) ELSE r
        RookCaptured(r) ==
            IF captured # NoPiece THEN _rook_castling_update(r, move.to_sq) ELSE r
        clock == IF piece_type = PAWN
                 THEN 0
                 ELSE b.halfmove_clock + 1
    IN  [squares |-> MoveRook(Promote(MovePiece(s1))),
         turn |-> Opponent(color),
         castling_rights |-> RookCaptured(RookMoved(r1)),
         ep_square |-> ep,
         halfmove_clock |-> clock,
         fullmove_number |-> IF color = BLACK THEN b.fullmove_number + 1
                             ELSE b.fullmove_number,
         _history |-> Append(b._history, undo)]

\* Board.make_move incrementing fullmove_number after either side's move
make_move_counts_every_move(b, move) ==
    LET piece == b.squares[move.from_sq]
        color == piece[1]
        piece_type == piece[2]
        captured == b.squares[move.to_sq]
        epsq == ep_cap_sq(color, move)
        ep_captured == IF move.is_en_passant
                       THEN <<epsq, b.squares[PyIndex(epsq)]>>
                       ELSE <<>>
        undo == [move |-> move,
                 captured |-> captured,
                 ep_captured |-> ep_captured,
                 castling_rights |-> b.castling_rights,
                 ep_square |-> b.ep_square,
                 halfmove_clock |-> b.halfmove_clock,
                 fullmove_number |-> b.fullmove_number]
        \* en passant capture: remove the captured pawn
        s1 == IF move.is_en_passant
              THEN [b.squares EXCEPT ![PyIndex(epsq)] = NoPiece]
              ELSE b.squares
        \* move the piece
        MovePiece(s) ==
            [[s EXCEPT ![move.to_sq] = piece] EXCEPT ![move.from_sq] = NoPiece]
        \* promotion
        Promote(s) ==
            IF move.promotion # None
            THEN [s EXCEPT ![move.to_sq] = <<color, move.promotion>>]
            ELSE s
        \* castling: also move the rook
        rk == CastleRook(move.to_sq)
        MoveRook(s) ==
            IF move.is_castle /\ rk # <<>>
            THEN [[s EXCEPT ![rk[2]] = s[rk[1]]] EXCEPT ![rk[1]] = NoPiece]
            ELSE s
        from_row == row_of(move.from_sq)
        to_row == row_of(move.to_sq)
        ep == IF piece_type = PAWN /\ Abs(to_row - from_row) = 2
              THEN ((from_row + to_row) \div 2) * 8 + col_of(move.from_sq)
              ELSE None
        r1 == IF piece_type = KING
              THEN IF color = WHITE
                   THEN [b.castling_rights EXCEPT !["K"] = FALSE, !["Q"] = FALSE]
                   ELSE [b.castling_rights EXCEPT !["k"] = FALSE, !["q"] = FALSE]
              ELSE b.castling_rights
        RookMoved(r) ==
            IF piece_type = ROOK THEN _rook_castling_update(r, move.from_sq) ELSE r
        RookCaptured(r) ==
            IF captured # NoPiece THEN _rook_castling_update(r, move.to_sq) ELSE r
        clock == IF piece_type = PAWN \/ captured # NoPiece \/ move.is_en_passant
                 THEN 0
                 ELSE b.halfmove_clock + 1
    IN  [squares |-> MoveRook(Promote(MovePiece(s1))),
         turn |-> Opponent(color),
         castling_rights |-> RookCaptured(RookMoved(r1)),
         ep_square |-> ep,
         halfmove_clock |-> clock,
         fullmove_number |-> b.fullmove_number + 1,
         _history |-> Append(b._history, undo)]

make_move(b, move) ==
    LET piece == b.squares[move.from_sq]
        color == piece[1]
        piece_type == piece[2]
        captured == b.squares[move.to_sq]
        epsq == ep_cap_sq(color, move)
        ep_captured == IF move.is_en_passant
                       THEN <<epsq, b.squares[PyIndex(epsq)]>>
                       ELSE <<>>
        undo == [move |-> move,
                 captured |-> captured,
                 ep_captured |-> ep_captured,
                 castling_rights |-> b.castling_rights,
                 ep_square |-> b.ep_square,
                 halfmove_clock |-> b.halfmove_clock,
                 fullmove_number |-> b.fullmove_number]
        \* en passant capture: remove the captured pawn
        s1 == IF move.is_en_passant
              THEN [b.squares EXCEPT ![PyIndex(epsq)] = NoPiece]
              ELSE b.squares
        \* move the piece
        MovePiece(s) ==
            [[s EXCEPT ![move.to_sq] = piece] EXCEPT ![move.from_sq] = NoPiece]
        \* promotion
        Promote(s) ==
            IF move.promotion # None
            THEN [s EXCEPT ![move.to_sq] = <<color, move.promotion>>]
            ELSE s
        \* castling: also move the rook
        rk == CastleRook(move.to_sq)
        MoveRook(s) ==
            IF move.is_castle /\ rk # <<>>
            THEN [[s EXCEPT ![rk[2]] = s[rk[1]]] EXCEPT ![rk[1]] = NoPiece]
            ELSE s
        from_row == row_of(move.from_sq)
        to_row == row_of(move.to_sq)
        ep == IF piece_type = PAWN /\ Abs(to_row - from_row) = 2
              THEN ((from_row + to_row) \div 2) * 8 + col_of(move.from_sq)
              ELSE None
        r1 == IF piece_type = KING
              THEN IF color = WHITE
                   THEN [b.castling_rights EXCEPT !["K"] = FALSE, !["Q"] = FALSE]
                   ELSE [b.castling_rights EXCEPT !["k"] = FALSE, !["q"] = FALSE]
              ELSE b.castling_rights
        RookMoved(r) ==
            IF piece_type = ROOK THEN _rook_castling_update(r, move.from_sq) ELSE r
        RookCaptured(r) ==
            IF captured # NoPiece THEN _rook_castling_update(r, move.to_sq) ELSE r
        clock == IF piece_type = PAWN \/ captured # NoPiece \/ move.is_en_passant
                 THEN 0
                 ELSE b.halfmove_clock + 1
    IN  [squares |-> MoveRook(Promote(MovePiece(s1))),
         turn |-> Opponent(color),
         castling_rights |-> RookCaptured(RookMoved(r1)),
         ep_square |-> ep,
         halfmove_clock |-> clock,
         fullmove_number |-> IF color = BLACK THEN b.fullmove_number + 1
                             ELSE b.fullmove_number,
         _history |-> Append(b._history, undo)]

\* undo_move leaving a promoted piece on the square the pawn came from
undo_move_keeps_promoted(b) ==
    IF b._history = <<>> THEN b
    ELSE
    LET undo == b._history[Len(b._history)]
        move == undo.move
        s1 == [[b.squares EXCEPT ![move.from_sq] = b.squares[move.to_sq]]
                          EXCEPT ![move.to_sq] = undo.captured]
        RestorePawn(s) ==
            IF move.is_en_passant /\ undo.ep_captured # <<>>
            THEN [s EXCEPT ![PyIndex(undo.ep_captured[1])] = undo.ep_captured[2]]
            ELSE s
        rk == CastleRook(move.to_sq)
        RestoreRook(s) ==
            IF move.is_castle /\ rk # <<>>
            THEN [[s EXCEPT ![rk[1]] = s[rk[2]]] EXCEPT ![rk[2]] = NoPiece]
            ELSE s
    IN  [squares |-> RestoreRook(RestorePawn(s1)),
         turn |-> Opponent(b.turn),
         castling_rights |-> undo.castling_rights,
         ep_square |-> undo.ep_square,
         halfmove_clock |-> undo.halfmove_clock,
         fullmove_number |-> undo.fullmove_number,
         _history |-> SubSeq(b._history, 1, Len(b._history) - 1)]

undo_move(b) ==
    IF b._history = <<>> THEN b
    ELSE
    LET undo == b._history[Len(b._history)]
        move == undo.move
        color == Opponent(b.turn)
        piece_at_dest == b.squares[move.to_sq]
        \* "if move.promotion": None and PAWN (0) are both falsy
        moving_piece == IF move.promotion # None /\ move.promotion # PAWN
                        THEN <<color, PAWN>>
                        ELSE piece_at_dest
        s1 == [[b.squares EXCEPT ![move.from_sq] = moving_piece]
                          EXCEPT ![move.to_sq] = undo.captured]
        \* restore the pawn captured en passant
        RestorePawn(s) ==
            IF move.is_en_passant /\ undo.ep_captured # <<>>
            THEN [s EXCEPT ![PyIndex(undo.ep_captured[1])] = undo.ep_captured[2]]
            ELSE s
        rk == CastleRook(move.to_sq)
        \* castling: move the rook back
        RestoreRook(s) ==
            IF move.is_castle /\ rk # <<>>
            THEN [[s EXCEPT ![rk[1]] = s[rk[2]]] EXCEPT ![rk[2]] = NoPiece]
            ELSE s
    IN  [squares |-> RestoreRook(RestorePawn(s1)),
         turn |-> color,
         castling_rights |-> undo.castling_rights,
         ep_square |-> undo.ep_square,
         halfmove_clock |-> undo.halfmove_clock,
         fullmove_number |-> undo.fullmove_number,
         _history |-> SubSeq(b._history, 1, Len(b._history) - 1)]

\* Board.find_king: the lowest square holding color's king, None if absent
find_king(b, color) ==
    LET ks == {s \in 0..63 : b.squares[s] = <<color, KING>>}
    IN  IF ks = {} THEN None ELSE CHOOSE s \in ks : \A t \in ks : s <= t

\* ------------------------------------------------------------------------
\* engine/move_generator.py
\* ------------------------------------------------------------------------
_DIAG == << <<1, 1>>, <<1, -1>>, <<-1, 1>>, <<-1, -1>> >>

_ORTH == << <<1, 0>>, <<-1, 0>>, <<0, 1>>, <<0, -1>> >>

_KNIGHT_DELTAS ==
    << <<-2, -1>>, <<-2, 1>>, <<-1, -2>>, <<-1, 2>>,
       <<1, -2>>, <<1, 2>>, <<2, -1>>, <<2, 1>> >>

_KING_DELTAS ==
    << <<-1, -1>>, <<-1, 0>>, <<-1, 1>>, <<0, -1>>,
       <<0, 1>>, <<1, -1>>, <<1, 0>>, <<1, 1>> >>

OnBoard(r, c) == 0 <= r /\ r <= 7 /\ 0 <= c /\ c <= 7

\* the promotion choices, in the order the generator appends them
PromoTypes == <<QUEEN, ROOK, BISHOP, KNIGHT>>

PromoMoves(s, t) == [i \in 1..4 |-> Move(s, t, PromoTypes[i], FALSE, FALSE)]

\* one diagonal capture attempt of _pawn_moves (dc = -1 or 1)
PawnCapture(b, s, color, nr, dc) ==
    LET nc == col_of(s) + dc
        promo_row == IF color = WHITE THEN 0 ELSE 7
        cap_sq == sq(nr, nc)
        target == b.squares[cap_sq]
    IN  IF ~(0 <= nc /\ nc <= 7) THEN <<>>
        ELSE IF target # NoPiece /\ target[1] # color
             THEN IF nr = promo_row THEN PromoMoves(s, cap_sq)
                  ELSE <<Move(s, cap_sq, None, FALSE, FALSE)>>
        ELSE IF b.ep_square = cap_sq
             THEN <<Move(s, cap_sq, None, FALSE, TRUE)>>
        ELSE <<>>

\* _pawn_moves without the double push from the start row
_pawn_moves_single_push(b, s, color) ==
    LET row == row_of(s)
        col == col_of(s)
        direction == IF color = WHITE THEN -1 ELSE 1
        promo_row == IF color = WHITE THEN 0 ELSE 7
        nr == row + direction
        fwd == sq(nr, col)
        pushes == IF b.squares[fwd] # NoPiece THEN <<>>
                  ELSE IF nr = promo_row THEN PromoMoves(s, fwd)
                  ELSE <<Move(s, fwd, None, FALSE, FALSE)>>
    IN  IF 0 <= nr /\ nr <= 7
        THEN pushes \o PawnCapture(b, s, color, nr, -1) \o PawnCapture(b, s, color, nr, 1)
        ELSE <<>>

_pawn_moves(b, s, color) ==
    LET row == row_of(s)
        col == col_of(s)
        direction == IF color = WHITE THEN -1 ELSE 1
        start_row == IF color = WHITE THEN 6 ELSE 1
        promo_row == IF color = WHITE THEN 0 ELSE 7
        nr == row + direction
        fwd == sq(nr, col)
        dbl == sq(row + 2 * direction, col)
        pushes == IF b.squares[fwd] # NoPiece THEN <<>>
                  ELSE IF nr = promo_row THEN PromoMoves(s, fwd)
                  ELSE <<Move(s, fwd, None, FALSE, FALSE)>> \o
                       (IF row = start_row /\ b.squares[dbl] = NoPiece
                        THEN <<Move(s, dbl, None, FALSE, FALSE)>>
                        ELSE <<>>)
    IN  IF 0 <= nr /\ nr <= 7
        THEN pushes \o PawnCapture(b, s, color, nr, -1) \o PawnCapture(b, s, color, nr, 1)
        ELSE <<>>

RECURSIVE StepMoves(_, _, _, _, _)
\* the loop of _knight_moves / _king_moves over deltas[i..]
StepMoves(b, s, color, deltas, i) ==
    IF i > Len(deltas) THEN <<>>
    ELSE LET nr == row_of(s) + deltas[i][1]
             nc == col_of(s) + deltas[i][2]
             here == IF OnBoard(nr, nc) /\
                        (b.squares[sq(nr, nc)] = NoPiece \/ b.squares[sq(nr, nc)][1] # color)
                     THEN <<Move(s, sq(nr, nc), None, FALSE, FALSE)>>
                     ELSE <<>>
         IN  here \o StepMoves(b, s, color, deltas, i + 1)

_knight_moves(b, s, color) == StepMoves(b, s, color, _KNIGHT_DELTAS, 1)

_king_moves(b, s, color) == StepMoves(b, s, color, _KING_DELTAS, 1)

RECURSIVE Ray(_, _, _, _, _, _, _)
\* the while loop of _sliding: walk from (r, c) in direction (dr, dc)
Ray(b, s, color, dr, dc, r, c) ==
    IF ~OnBoard(r, c) THEN <<>>
    ELSE LET t == b.squares[sq(r, c)]
         IN  IF t = NoPiece
             THEN <<Move(s, sq(r, c), None, FALSE, FALSE)>> \o
                  Ray(b, s, color, dr, dc, r + dr, c + dc)
             ELSE IF t[1] # color THEN <<Move(s, sq(r, c), None, FALSE, FALSE)>>
             ELSE <<>>

RECURSIVE SlideDirs(_, _, _, _, _)
SlideDirs(b, s, color, directions, i) ==
    IF i > Len(directions) THEN <<>>
    ELSE Ray(b, s, color, directions[i][1], directions[i][2],
             row_of(s) + directions[i][1], col_of(s) + directions[i][2])
         \o SlideDirs(b, s, color, directions, i + 1)

_sliding(b, s, color, directions) == SlideDirs(b, s, color, directions, 1)

\* the dispatch on the piece type in the loop body of _pseudo_legal
PieceMoves(b, s, color) ==
    LET piece == b.squares[s]
    IN  IF piece = NoPiece \/ piece[1] # color THEN <<>>
        ELSE IF piece[2] = PAWN THEN _pawn_moves(b, s, color)
        ELSE IF piece[2] = KNIGHT THEN _knight_moves(b, s, color)
        ELSE IF piece[2] = BISHOP THEN _sliding(b, s, color, _DIAG)
        ELSE IF piece[2] = ROOK THEN _sliding(b, s, color, _ORTH)
        ELSE IF piece[2] = QUEEN THEN _sliding(b, s, color, _DIAG \o _ORTH)
        ELSE IF piece[2] = KING THEN _king_moves(b, s, color)
        ELSE <<>>

RECURSIVE PseudoRange(_, _, _, _)
\* the loop of _pseudo_legal over the squares lo..hi, in increasing order
PseudoRange(b, color, lo, hi) ==
    IF lo = hi THEN PieceMoves(b, lo, color)
    ELSE LET mid == (lo + hi) \div 2
         IN  PseudoRange(b, color, lo, mid) \o PseudoRange(b, color, mid + 1, hi)

_pseudo_legal(b, color) == PseudoRange(b, color, 0, 63)

\* piece of by_color with a type among types on (r, c)
IsPieceOf(b, r, c, by_color, types) ==
    LET p == b.squares[sq(r, c)]
    IN  p # NoPiece /\ p[1] = by_color /\ p[2] \in types

RECURSIVE RayHit(_, _, _, _, _, _, _)
\* a ray-cast of _is_attacked: the first occupant decides
RayHit(b, r, c, dr, dc, by_color, types) ==
    IF ~OnBoard(r, c) THEN FALSE
    ELSE IF b.squares[sq(r, c)] # NoPiece THEN IsPieceOf(b, r, c, by_color, types)
    ELSE RayHit(b, r + dr, c + dc, dr, dc, by_color, types)

_is_attacked(b, square, by_color) ==
    LET row == row_of(square)
        col == col_of(square)
        pawn_from_row == row + (IF by_color = WHITE THEN 1 ELSE -1)
    IN  \/ /\ 0 <= pawn_from_row /\ pawn_from_row <= 7
           /\ \E dc \in {-1, 1} :
                /\ 0 <= col + dc /\ col + dc <= 7
                /\ IsPieceOf(b, pawn_from_row, col + dc, by_color, {PAWN})
        \/ \E i \in 1..8 :
             LET nr == row + _KNIGHT_DELTAS[i][1]
                 nc == col + _KNIGHT_DELTAS[i][2]
             IN  OnBoard(nr, nc) /\ IsPieceOf(b, nr, nc, by_color, {KNIGHT})
        \/ \E i \in 1..4 :
             RayHit(b, row + _ORTH[i][1], col + _ORTH[i][2], _ORTH[i][1], _ORTH[i][2],
                    by_color, {ROOK, QUEEN})
        \/ \E i \in 1..4 :
             RayHit(b, row + _DIAG[i][1], col + _DIAG[i][2], _DIAG[i][1], _DIAG[i][2],
                    by_color, {BISHOP, QUEEN})
        \/ \E i \in 1..8 :
             LET nr == row + _KING_DELTAS[i][1]
                 nc == col + _KING_DELTAS[i][2]
             IN  OnBoard(nr, nc) /\ IsPieceOf(b, nr, nc, by_color, {KING})

is_in_check(b, color) ==
    LET king_sq == find_king(b, color)
    IN  IF king_sq = None THEN FALSE
        ELSE _is_attacked(b, king_sq, Opponent(color))

\* a castling option that tests the king's start square only for attack
CastleOption_through_check(b, color, right, rook_sq, empty, safe, to_sq) ==
    IF /\ b.castling_rights[right]
       /\ b.squares[rook_sq] = <<color, ROOK>>
       /\ \A e \in empty : b.squares[e] = NoPiece
       /\ ~_is_attacked(b, IF color = WHITE THEN sq(7, 4) ELSE sq(0, 4), Opponent(color))
    THEN <<Move(IF color = WHITE THEN sq(7, 4) ELSE sq(0, 4), to_sq, None, TRUE, FALSE)>>
    ELSE <<>>

\* one castling option of _castling_moves: right set, rook at home, the
\* squares between empty, the king's three squares not attacked
CastleOption(b, color, right, rook_sq, empty, safe, to_sq) ==
    IF /\ b.castling_rights[right]
       /\ b.squares[rook_sq] = <<color, ROOK>>
       /\ \A e \in empty : b.squares[e] = NoPiece
       /\ \A a \in safe : ~_is_attacked(b, a, Opponent(color))
    THEN <<Move(IF color = WHITE THEN sq(7, 4) ELSE sq(0, 4), to_sq, None, TRUE, FALSE)>>
    ELSE <<>>

_castling_moves(b, color) ==
    IF color = WHITE
    THEN IF b.squares[sq(7, 4)] # <<WHITE, KING>> THEN <<>>
         ELSE CastleOption(b, WHITE, "K", sq(7, 7), {sq(7, 5), sq(7, 6)},
                           {sq(7, 4), sq(7, 5), sq(7, 6)}, sq(7, 6))
              \o
              CastleOption(b, WHITE, "Q", sq(7, 0), {sq(7, 3), sq(7, 2), sq(7, 1)},
                           {sq(7, 4), sq(7, 3), sq(7, 2)}, sq(7, 2))
    ELSE IF b.squares[sq(0, 4)] # <<BLACK, KING>> THEN <<>>
         ELSE CastleOption(b, BLACK, "k", sq(0, 7), {sq(0, 5), sq(0, 6)},
                           {sq(0, 4), sq(0, 5), sq(0, 6)}, sq(0, 6))
              \o
              CastleOption(b, BLACK, "q", sq(0, 0), {sq(0, 3), sq(0, 2), sq(0, 1)},
                           {sq(0, 4), sq(0, 3), sq(0, 2)}, sq(0, 2))

\* one iteration of the loop of generate_legal_moves: make, test, undo.
\* With color's king absent, _is_attacked(board, None, ...) raises TypeError
\* after the move was made and before it is undone.
FilterOne(b, color, move) ==
    LET Test(b1, king_sq) ==
            IF king_sq = None
            THEN [moves |-> <<>>, board |-> b1, raised |-> TRUE]
            ELSE [moves |-> IF ~_is_attacked(b1, king_sq, Opponent(color))
                            THEN <<move>> ELSE <<>>,
                  board |-> undo_move(b1),
                  raised |-> FALSE]
        Made(b1) == Test(b1, find_king(b1, color))
    IN  Made(make_move(b, move))

RECURSIVE FilterLegal(_, _, _, _, _)
\* the loop of generate_legal_moves over pseudo[lo..hi], run in order on the
\* board each iteration leaves to the next; it stops where an iteration raises
FilterLegal(b, color, pseudo, lo, hi) ==
    IF lo > hi THEN [moves |-> <<>>, board |-> b, raised |-> FALSE]
    ELSE IF lo = hi THEN FilterOne(b, color, pseudo[lo])
    ELSE LET mid == (lo + hi) \div 2
             Join(left, right) ==
                 [moves |-> left.moves \o right.moves,
                  board |-> right.board,
                  raised |-> right.raised]
             Rest(left) ==
                 IF left.raised THEN left
                 ELSE Join(left, FilterLegal(left.board, color, pseudo, mid + 1, hi))
         IN  Rest(FilterLegal(b, color, pseudo, lo, mid))

\* generate_legal_moves without its legality filter
generate_legal_moves_unfiltered(b) ==
    [moves |-> _pseudo_legal(b, b.turn) \o _castling_moves(b, b.turn),
     board |-> b, raised |-> FALSE]

\* generate_legal_moves: the list returned (moves), the board as the call
\* leaves it (board), and whether the call raised
generate_legal_moves(b) ==
    LET Filter(pseudo) == FilterLegal(b, b.turn, pseudo, 1, Len(pseudo))
    IN  Filter(_pseudo_legal(b, b.turn) \o _castling_moves(b, b.turn))

\* ------------------------------------------------------------------------
\* engine/zobrist.py
\*
\* A 64-bit value is the set of its one-bits (bit i has weight 2^i), so that
\* XOR is the symmetric difference.  The tables hold the values
\* random.Random(42).getrandbits(64) yields, in the order __init__ draws them.
\* ------------------------------------------------------------------------

\* piece_table[color + 1][piece_type + 1][square + 1]
piece_table ==
  <<
   <<
    <<
     {0,2,3,4,7,8,11,12,13,14,16,20,21,23,24,25,29,31,32,33,34,35,36,37,38,40,44,45,55,58,59,60},
     {0,4,6,7,9,11,12,16,17,18,21,22,25,26,32,33,35,36,37,38,39,46,49,50,52,54,55,56,58,59,60,61,63},
     {0,1,2,4,6,9,12,14,19,21,22,25,26,30,36,39,40,41,43,44,45,48,52,53,55,57,58,59,60,61},
     {1,2,3,4,6,7,9,10,12,14,18,21,24,27,28,29,32,35,37,38,39,40,46,47,51,52,53,55,56,57,61},
     {0,3,5,7,13,14,16,19,23,26,27,28,29,31,32,33,34,37,39,40,41,42,43,44,48,50,51,52,53,57,59,60},
     {0,2,3,5,6,8,10,11,13,18,19,20,21,24,26,27,29,31,32,33,36,37,39,41,42,45,46,50,51,52,55,56,58,59,60,61,63},
     {4,6,8,13,14,15,16,18,21,22,26,29,30,31,34,36,37,42,45,48,50,51,52,55,56,57,59,63},
     {1,7,8,9,10,11,12,15,16,22,25,26,28,32,35,37,38,42,47,49,51,53,56,57,58,60,63},
     {0,3,4,7,8,12,16,17,26,27,29,30,32,33,36,37,38,39,43,45,46,47,49,53,59},
     {1,2,3,5,6,9,11,14,15,21,23,24,25,26,33,35,36,38,40,43,45,46,50,51,52,53,54,55,56,57,58,60},
     {0,1,3,7,11,13,15,19,20,21,22,23,24,25,26,28,29,35,36,41,43,45,47,48,49,50,51,55,56,57,59,60,61},
     {0,4,6,7,9,10,12,13,14,15,17,18,19,20,22,24,31,34,38,41,42,45,46,47,48,50,51,52,57,59,60,63},
     {0,1,4,5,7,8,9,10,11,16,17,19,22,23,25,26,33,34,37,39,40,46,47,48,50,51,53,55,56,57,58,59,63},
     {0,3,5,9,10,16,17,18,21,22,23,25,28,29,32,36,37,39,40,41,42,43,48,50,51,54,56,57,58,60,61,63},
     {0,3,7,8,9,12,14,15,17,18,19,20,22,25,26,29,31,34,35,39,43,49,51,55,56,57,60,61,63},
     {1,2,4,5,6,7,11,14,16,23,24,25,27,31,34,37,39,41,42,45,47,48,50,53,54,56,57,59,61,62},
     {5,6,7,8,9,11,14,15,17,18,19,21,22,27,28,29,33,35,37,40,42,43,44,46,48,49,50,51,52,53,54,55,57,60,61,62},
     {2,3,5,7,8,10,11,12,17,19,20,22,23,25,26,28,31,36,39,40,47,48,49,50,52,53,56,57,58,62},
     {0,1,3,7,8,10,12,14,15,17,18,20,21,24,25,26,27,30,31,32,33,35,38,40,41,42,44,45,46,49,51,55,57,58,59,60,62,63},
     {0,1,2,3,4,8,9,10,13,14,15,16,19,21,23,24,32,33,35,40,41,44,45,48,54,57,62,63},
     {0,2,3,4,5,7,8,9,11,13,17,19,22,25,26,27,30,31,34,38,39,41,42,43,45,46,48,49,50,51,52,54,55,59,61},
     {1,3,4,5,6,8,9,14,16,19,20,21,23,25,28,29,31,32,36,40,42,44,45,46,52,53,58,59,61,62},
     {1,2,4,5,6,11,13,15,17,19,20,24,25,26,28,30,32,35,39,40,41,44,47,49,53,56,57,58,62},
     {4,5,8,15,16,18,19,22,23,24,25,26,29,32,33,35,36,37,38,40,42,43,46,47,49,50,51,52,56,57,58,60,61},
     {0,1,5,6,9,11,13,14,15,16,17,19,24,26,28,29,30,31,33,34,35,37,38,39,40,43,44,46,50,52,53,54,56,57,62,63},
     {0,3,4,5,6,8,9,10,11,16,17,19,21,25,26,28,30,32,34,35,37,38,39,40,41,44,45,46,49,51,53,57,59,60},
     {0,4,8,12,13,17,18,19,20,21,23,24,25,26,28,32,34,35,36,37,38,41,43,45,46,47,49,54,56,61,62},
     {0,1,2,4,7,8,9,10,13,14,17,22,23,27,28,33,34,35,39,41,44,49,50,53,54,55,56,57,59,60,62},
     {0,1,4,10,13,14,16,18,20,21,22,23,27,28,30,31,32,36,37,38,40,41,43,44,45,46,48,50,51,59,60,62},
     {0,1,9,11,14,15,16,18,19,23,25,27,28,31,33,34,37,39,40,41,45,47,48,49,50,52,53,55,56,57,62},
     {0,1,2,3,4,5,6,8,10,12,13,14,15,16,17,18,19,20,23,25,26,27,30,31,32,33,37,38,40,44,47,48,49,50,51,52,56,57,59},
     {4,6,7,8,9,12,13,15,16,17,18,19,22,23,25,27,28,29,31,33,34,37,38,41,42,43,44,46,47,50,51,52,55,56,58,60,61,62},
     {0,2,7,9,10,11,12,13,17,18,22,24,27,31,35,36,37,38,40,41,43,44,47,50,52,53,54,55,56,57,58,59,60},
     {2,3,6,8,10,11,12,17,18,19,20,24,27,28,29,30,31,32,37,39,42,43,47,48,49,51,52,58,59,61,62,63},
     {0,1,4,8,13,15,16,17,18,21,22,23,29,30,35,37,38,39,40,41,42,43,44,45,50,51,53,58,60},
     {0,4,5,6,7,11,15,17,20,22,24,26,27,31,32,38,40,41,43,44,45,47,48,50,51,56,57,59,62},
     {1,4,5,8,10,11,12,14,15,16,17,20,22,26,28,30,31,33,34,35,37,39,40,43,47,49,50,51,53,54,55,61,63},
     {1,3,4,5,6,8,9,10,11,14,16,17,18,20,22,25,26,27,28,31,32,33,34,35,37,40,41,42,44,45,46,47,50,51,53,55,57,61,62,63},
     {0,6,7,9,12,14,15,19,20,23,26,27,28,30,31,36,37,38,39,42,43,44,50,52,55,58,59,60,62},
     {0,1,2,3,4,5,7,8,11,12,14,16,18,19,22,23,24,25,28,31,34,35,37,40,41,44,46,47,48,51,52,53,56,60,61},
     {4,5,6,7,8,12,14,15,17,18,19,20,22,26,28,29,31,33,36,38,39,40,42,43,44,46,49,50,51,54,55,56,60},
     {0,3,4,7,8,10,13,16,17,19,20,21,23,24,25,27,32,35,36,39,40,42,43,47,51,54,56,59,61,63},
     {1,2,3,7,9,11,15,16,17,18,20,22,25,27,28,29,33,35,39,41,42,43,46,47,48,49,50,53,54,55,56,58,62,63},
     {0,2,3,6,10,12,14,16,18,20,25,27,30,34,35,38,41,43,44,45,46,48,49,50,52,53,58,59,60,61,62,63},
     {0,4,5,8,9,10,11,12,13,16,18,19,21,22,26,28,33,34,37,41,43,44,49,50,52,53,54,55,57,59,60,62,63},
     {3,4,5,6,7,9,10,11,13,19,20,23,24,25,27,28,29,33,36,37,39,40,41,42,43,44,46,47,48,52,54,55,56,58,59,60,62,63},
     {4,6,7,9,11,12,13,16,17,19,20,22,23,24,27,28,32,33,34,36,38,39,40,41,44,45,46,47,48,49,50,51,54,56,61,62},
     {0,3,4,5,8,9,10,14,16,19,21,24,25,26,30,32,33,36,39,41,44,45,47,49,52,58,60,61,62},
     {0,1,2,3,5,8,9,10,12,13,18,19,20,21,23,25,29,31,33,34,35,36,38,39,41,46,51,55,56,58,60,62,63},
     {0,6,10,13,15,16,18,21,22,24,26,27,28,30,32,35,37,38,39,41,44,45,47,48,49,53,55,56,59,61},
     {3,9,10,11,13,18,22,23,25,26,27,28,30,32,33,36,38,40,42,48,49,52,53,54,55,57,59,60,62},
     {1,2,3,5,7,14,17,21,23,24,26,28,29,34,37,39,40,43,44,47,52,55,56,57,59,61,63},
     {0,2,7,11,13,15,19,20,22,26,30,33,34,35,36,37,38,39,41,42,43,44,45,46,49,51,53,55,56,57,60,61,63},
     {0,3,6,11,12,15,19,22,23,24,25,26,27,29,30,31,35,36,38,39,41,43,44,45,46,47,50,51,52,53,54,55,57,58,59,61,63},
     {0,1,3,5,7,8,10,13,15,16,18,21,22,23,24,26,29,31,32,33,34,36,38,40,41,42,43,45,46,48,49,50,54,57,60},
     {0,1,4,5,6,9,20,21,22,23,24,25,27,28,31,32,33,37,38,39,40,41,42,43,45,46,47,48,50,51,55,57,61,63},
     {0,9,10,11,12,13,15,16,17,18,19,22,23,24,25,27,29,32,33,34,42,45,46,48,50,51,52,53,55,59,63},
     {2,4,6,7,8,10,11,19,21,23,25,27,28,29,31,32,33,35,38,39,40,42,43,45,46,47,48,49,51,53,55,57,58,59,60,61},
     {0,1,2,3,5,6,7,9,10,11,12,13,15,18,20,22,23,24,27,29,33,36,37,38,40,41,42,43,45,47,49,50,52,54,57,58,60,61,62},
     {0,1,2,4,5,6,7,8,10,11,12,13,14,15,16,17,21,24,29,30,32,33,36,37,38,39,42,43,46,48,49,51,52,56,58,62},
     {1,2,5,6,7,9,10,13,14,16,20,22,24,26,27,28,29,30,31,33,37,39,40,41,42,43,45,46,49,50,53,54,55,58,59,61,62,63},
     {3,5,9,10,16,17,18,20,22,23,24,25,29,31,34,38,39,40,45,46,48,49,51,53,60,61,63},
     {0,3,4,5,9,14,18,20,23,25,26,27,31,33,34,37,40,41,44,45,47,51,52,53,59,60,61},
     {0,1,2,3,5,8,13,14,15,17,22,24,25,26,27,29,31,32,33,34,35,36,37,38,40,44,45,50,56,57,60,62}
    >>,
    <<
     {0,2,5,7,10,13,16,18,22,23,24,25,26,28,30,31,34,35,38,39,41,44,45,52,53,55,58,62,63},
     {0,3,4,5,9,10,11,13,14,15,16,17,18,21,23,25,26,30,31,32,34,35,40,41,44,45,46,47,48,52,54,57,58,59},
     {0,3,4,5,6,7,10,13,14,15,17,21,23,25,27,28,29,32,33,35,37,39,40,41,42,45,47,48,53,54,57,60,62,63},
     {0,1,5,7,11,12,13,15,16,17,18,20,21,27,33,34,35,38,40,41,43,44,45,46,48,49,50,52,57,58,59,62,63},
     {2,3,4,5,6,7,8,9,10,15,16,22,23,28,30,32,33,35,36,38,42,43,44,45,47,49,52,53,55,57,58,61,62},
     {1,2,3,4,7,9,11,13,15,17,19,23,26,30,32,39,42,43,44,45,47,48,52,53,54,55,60},
     {2,3,5,7,11,12,13,14,15,17,25,26,28,29,37,38,39,40,43,46,48,49,54,55,56,59,61,62,63},
     {2,5,6,7,8,9,10,15,17,21,22,24,28,29,30,31,33,34,35,36,37,41,42,44,45,47,49,52,53,56,60,63},
     {1,2,3,5,6,7,13,15,16,19,20,22,29,30,31,32,33,34,35,38,39,41,43,44,45,48,51,54,55,56,57,58,60,61,63},
     {0,1,2,4,6,7,9,11,12,13,15,17,18,19,23,28,30,32,33,34,35,37,38,40,44,45,47,49,50,51,53,54,57,58,60,61},
     {0,2,4,10,12,14,15,17,19,22,23,24,25,26,29,31,32,36,37,39,41,42,43,44,47,48,50,51,54,55,56,57,58,59,60,61,62},
     {4,6,7,8,13,19,22,24,26,29,30,32,34,35,38,43,44,47,49,51,52,53,54,57,61,62,63},
     {0,2,5,6,9,11,14,15,16,17,18,19,20,25,27,29,30,31,33,36,37,39,44,45,46,47,48,52,55,58,61,63},
     {0,3,5,7,12,14,16,17,18,20,21,22,24,26,28,29,30,32,33,39,40,41,43,44,45,48,49,52,55,58,61},
     {1,2,3,4,6,7,8,9,10,11,13,16,17,18,19,22,23,24,25,30,32,34,35,36,44,46,47,49,50,51,52,53,55,56,57,61},
     {3,4,5,6,7,9,11,12,13,14,15,17,21,24,25,26,27,28,29,32,35,36,40,43,44,47,48,49,50,52,53,55,57,58,59,60,61,63},
     {0,1,3,4,5,6,9,12,14,15,16,18,20,21,23,24,25,26,27,31,35,37,38,41,43,45,46,49,51,52,53,54,55,56,59,63},
     {2,3,4,5,7,11,16,17,22,24,25,30,33,34,42,43,46,50,51,52,53,56,57,58,59,60,61,63},
     {0,3,4,5,6,8,10,11,13,14,16,17,18,21,23,24,26,28,31,32,33,34,38,39,41,42,44,46,47,48,50,51,53,55,56,58,59,61,62},
     {0,2,4,5,6,11,12,13,15,16,17,18,20,22,23,24,26,29,30,31,36,37,38,39,40,43,45,46,49,53,54,56,58,60,63},
     {0,1,2,4,7,10,11,12,16,17,18,19,20,21,25,26,29,30,32,33,34,36,39,42,43,46,47,48,49,51,53,55,58,59,60,62},
     {3,4,5,7,8,9,10,13,14,16,18,21,27,28,29,34,37,38,39,40,42,43,44,45,47,52,54,56,57,58,59,60,61,62,63},
     {4,5,6,7,8,9,10,11,12,15,17,18,19,20,22,24,25,26,27,28,29,30,31,34,39,40,42,44,45,47,48,51,53,54,56,57,61},
     {3,5,7,12,14,20,21,22,25,31,32,33,34,35,36,38,39,40,42,43,48,49,50,52,54,57,58,59,60,61,62},
     {3,4,6,7,9,10,12,14,15,16,18,22,24,25,26,28,33,35,39,44,45,46,47,49,51,52,53,54,56,62,63},
     {0,2,4,7,8,12,14,15,16,17,18,19,26,27,33,34,36,39,40,42,43,44,45,48,52,53,54,58,59,60,62,63},
     {0,2,4,5,8,9,10,12,13,14,15,16,20,26,27,28,32,33,34,35,36,38,39,40,41,43,44,47,53,56,57,58,61},
     {2,6,7,8,10,11,14,21,23,29,31,32,39,42,44,47,50,52,53,54,55,59,61},
     {2,3,7,9,10,12,13,15,16,18,22,23,25,27,30,31,34,36,38,42,50,52,53,57,58,59,61,63},
     {3,5,6,7,10,11,13,15,17,20,26,27,29,30,34,36,37,40,41,46,49,50,51,53,55,59,60,63},
     {4,9,11,12,14,16,17,22,28,32,34,38,42,43,44,55,57,61,62},
     {1,5,8,10,11,14,15,16,20,21,23,24,29,30,32,35,38,39,42,45,50,51,55,59,60,63},
     {0,3,4,7,8,9,10,11,14,15,16,24,25,26,27,28,29,30,31,33,41,42,43,44,49,52,54,55,56,57,58,60,61,62},
     {0,3,5,7,8,11,18,20,21,22,24,25,26,31,34,35,37,38,39,42,43,45,47,50,51,52,54,62},
     {0,3,4,5,7,8,9,10,12,15,19,20,23,27,28,29,30,31,32,33,35,36,38,41,42,44,45,53,55,56,58,59,63},
     {0,2,3,5,6,7,9,10,11,18,19,20,22,26,27,28,30,31,32,33,34,35,37,41,42,45,48,49,54,56,60,61,62,63},
     {4,7,8,9,11,13,14,20,21,22,23,25,32,33,34,37,39,40,42,43,48,49,50,53,57,58,59,61,63},
     {0,3,4,5,7,8,11,12,13,16,23,27,28,29,31,32,33,35,38,40,41,46,48,49,52,54,56,58,59,60},
     {0,1,2,4,9,12,15,18,23,25,26,27,29,31,32,34,35,36,37,38,39,41,42,43,44,45,46,48,55,57,61,62,63},
     {2,4,5,8,9,13,14,15,17,18,20,21,22,24,27,31,36,40,41,42,47,48,51,52,53,62,63},
     {3,6,7,8,9,10,13,15,17,18,19,22,26,30,32,33,37,38,39,41,45,46,47,49,54,55,58,62,63},
     {0,1,4,7,9,12,17,18,20,26,29,31,32,33,34,35,37,38,40,42,43,44,45,47,48,50,52,56,57,58,60,62},
     {0,3,5,6,7,9,10,11,13,15,17,18,19,23,26,27,28,35,40,41,44,46,47,49,53,56,57,59,62},
     {1,3,4,7,9,10,14,15,18,19,22,24,25,26,27,29,30,33,35,38,39,41,42,48,50,51,52,53,54,59,61},
     {0,1,5,7,10,11,12,13,16,17,18,21,26,28,29,30,32,35,36,38,40,41,42,43,45,47,50,52,54,55},
     {2,3,6,7,8,9,10,14,16,18,19,21,26,28,29,30,31,33,36,37,38,41,42,48,49,51,52,54,55,59,60,61,63},
     {0,2,3,5,6,7,8,10,13,14,15,16,17,18,20,21,29,30,31,32,33,35,41,42,43,44,45,46,47,50,51,52,53,59,60,61,63},
     {1,5,6,7,9,10,12,13,14,16,18,19,21,22,24,25,30,32,33,35,39,43,45,47,48,50,51,54,55,59,60,61,62,63},
     {0,1,2,3,4,6,8,11,13,14,17,18,21,31,33,34,35,37,38,42,44,45,46,47,48,49,50,51,56,57,62,63},
     {2,4,5,8,13,18,19,20,21,23,24,26,27,29,34,35,36,40,42,43,45,46,48,49,50,52,53,54,55,56,63},
     {0,1,2,3,5,6,9,11,12,13,14,15,16,21,23,24,27,29,30,31,34,35,36,38,40,42,43,44,45,47,48,50,51,52,53,56,57,59,60},
     {1,2,4,9,10,11,14,17,19,20,22,23,25,26,27,28,30,31,33,34,35,37,38,42,43,45,47,48,49,52,61,63},
     {3,5,7,13,14,15,17,18,21,22,26,27,30,32,33,34,36,37,38,42,45,47,48,49,50,52,53,54,56,57,58,60,62,63},
     {0,1,2,5,7,8,12,13,17,20,23,24,25,29,31,34,36,38,39,40,44,45,49,50,52,53,54,55,56,63},
     {0,1,2,6,7,11,12,13,14,16,18,21,22,23,24,25,27,28,31,32,35,39,41,42,44,46,47,48,49,51,53,54,55,57,60,61},
     {0,2,3,4,5,6,8,11,12,13,14,21,24,25,26,29,34,35,37,38,40,44,46,47,51,52,53,55,56,57,58,59,60,62},
     {0,5,6,11,13,14,15,16,17,20,21,24,25,30,31,32,34,36,40,41,42,46,48,49,51,52,54,56,59,61},
     {1,5,6,9,10,11,12,13,15,18,20,25,27,31,32,33,34,35,36,37,40,41,42,43,47,51,52,58,60,61,62,63},
     {0,1,2,3,7,12,18,20,22,24,25,26,30,31,32,34,38,39,40,41,45,47,50,53,58,59,61,62,63},
     {1,2,3,4,9,14,16,18,22,23,24,25,26,31,32,34,35,36,38,39,40,41,45,46,49,53,56,57,59,61,62,63},
     {0,4,6,7,9,11,12,13,14,16,18,21,34,36,37,39,41,42,43,45,46,50,52,54,56,59,60,63},
     {0,1,3,4,5,10,13,14,15,16,17,19,20,21,22,23,25,28,30,32,34,39,40,41,46,48,50,52,56,58,59,60,61,62},
     {1,7,8,10,11,13,14,18,19,20,21,22,23,26,32,33,35,36,37,38,39,42,43,44,46,48,49,53,55,58,59,60},
     {0,4,5,11,13,14,16,19,20,22,23,24,26,27,29,30,31,32,34,36,37,39,41,42,43,46,50,51,53,54,55,58,59,60,62}
    >>,
    <<
     {4,5,7,9,11,13,14,15,16,17,20,21,22,23,29,30,31,32,33,35,39,40,42,49,50,51,52,53,58,59,60,61,62,63},
     {0,3,4,5,11,19,21,22,23,26,28,30,31,32,34,35,37,40,41,43,46,47,51,55,57,58,59,62,63},
     {0,1,2,3,4,5,6,7,9,10,11,12,13,16,19,20,21,23,25,26,27,30,32,33,34,36,37,40,41,42,43,44,45,47,50,51,54,56,58,59,60,61},
     {1,3,4,8,9,10,11,13,18,20,22,23,25,26,27,32,35,37,39,41,46,47,48,51,53,55,56,58,59,60,61},
     {3,4,5,7,10,11,12,13,16,18,22,23,29,30,31,33,37,38,39,40,42,43,46,49,50,51,52,53,56,60,63},
     {1,2,4,5,6,8,9,10,14,16,17,19,21,22,25,28,29,30,31,32,33,34,42,43,45,46,48,51,53,58,60},
     {0,3,5,6,9,13,14,16,18,19,21,22,23,24,26,28,32,33,34,35,38,39,40,41,43,46,49,50,51,52,54,56,57,59,60,61,63},
     {0,5,6,7,9,10,11,12,14,15,16,19,21,22,26,27,28,29,30,37,38,41,42,45,46,47,49,50,53,54,55,60,62,63},
     {3,6,8,11,13,14,15,16,17,18,20,21,23,24,28,40,44,45,48,50,51,52,54,57,59,60,61,62,63},
     {0,2,6,7,9,12,14,15,17,18,20,21,23,25,30,31,33,34,37,38,41,42,43,45,46,48,49,50,51,52,54,59,63},
     {2,4,5,7,8,11,12,13,15,16,18,19,26,30,31,36,38,40,41,42,44,46,47,48,52,53,61},
     {0,2,3,4,6,8,9,14,17,18,19,20,22,23,29,34,35,41,42,43,45,46,48,50,53,54,55,59,61,63},
     {1,2,3,4,8,9,11,12,18,19,21,23,24,27,28,29,30,34,35,38,39,42,43,45,47,50,53,54,57,60,61,62,63},
     {4,5,7,8,10,11,13,14,15,16,17,18,19,20,21,23,26,27,31,32,33,35,37,39,41,46,47,48,50,54,57,59,61},
     {0,1,6,14,15,17,19,20,22,23,24,25,30,32,33,40,45,47,48,50,52,56,57,58,63},
     {1,3,4,7,8,10,14,15,16,17,18,20,22,24,25,26,27,28,30,31,33,34,37,40,42,43,44,45,47,48,51,54,56,57,59,60,63},
     {0,1,2,3,4,7,10,14,15,17,20,22,26,27,29,30,38,39,42,43,44,45,46,53,54,55,57,58,60,61,62,63},
     {0,5,11,13,14,19,20,21,25,26,28,29,33,34,35,36,38,41,42,46,48,50,51,54,55,56,58,59,61,62,63},
     {0,1,3,4,5,6,7,9,10,11,14,16,17,18,19,25,27,31,32,33,36,38,40,41,42,43,48,51,52,54,56,62,63},
     {1,3,5,8,9,14,15,18,19,20,22,23,25,27,28,29,31,34,35,36,38,41,43,45,48,49,51,52,55,60,61,63},
     {0,1,2,3,4,6,7,9,13,15,17,18,19,20,21,22,24,25,28,29,33,34,37,38,39,41,44,46,47,48,49,55,57,58,60,61,63},
     {1,3,4,7,8,9,13,15,18,19,22,23,24,25,26,27,30,33,35,36,37,38,39,40,41,43,44,46,50,53,57,58,61,62},
     {1,2,3,4,5,7,8,9,11,12,17,22,23,25,26,27,28,29,30,31,32,35,36,37,40,42,43,45,47,48,49,52,53,54,55,56,57,59,61,63},
     {1,2,3,7,11,13,14,17,18,19,20,22,25,26,29,31,32,36,37,38,42,43,44,45,46,51,52,55,56,57,58,59,60,62},
     {0,5,7,8,9,12,14,16,17,18,21,28,29,30,32,33,35,38,39,40,41,43,44,48,50,51,54,57,58,61,62,63},
     {2,4,5,7,8,11,12,14,15,16,17,18,19,20,21,22,26,31,32,33,34,35,39,43,44,47,50,52,55,56,57,60,61,62},
     {0,1,2,4,7,8,13,17,19,20,21,22,23,25,26,27,28,32,34,35,36,41,42,43,44,45,47,49,50,52,53,54,56,57,58,59,60,61},
     {0,1,2,3,6,7,8,9,14,15,16,18,23,24,27,28,29,34,35,36,38,50,53,54,60},
     {0,1,3,4,7,9,10,14,15,18,19,23,25,26,28,30,32,35,36,38,47,49,53,54,56,58},
     {1,5,6,9,10,13,14,16,17,19,20,23,25,26,28,31,32,33,40,42,43,46,47,48,50,51,54,55,56,58,59,63},
     {0,1,4,7,10,11,14,15,19,21,22,23,25,27,28,29,33,36,37,38,39,41,50,53,55,57,58,60,63},
     {1,2,4,5,7,9,11,13,21,22,27,28,29,33,34,36,38,41,46,48,49,50,52,54,55,56},
     {1,2,4,6,9,11,12,15,18,19,21,25,28,33,34,35,37,38,44,48,50,52,53,56,58,60,61,63},
     {1,2,4,5,7,9,10,12,13,14,15,16,17,18,19,23,24,29,31,37,38,39,40,43,44,46,49,52,56,57,58,59},
     {2,4,6,7,8,10,11,13,14,15,16,17,19,20,23,25,27,28,29,33,34,38,39,40,42,45,48,54,56,60},
     {1,2,5,8,9,11,12,15,16,19,22,23,24,25,26,29,30,31,32,33,35,36,37,38,39,40,42,43,45,47,49,51,59},
     {0,6,7,12,16,20,26,27,28,30,31,34,35,36,37,41,42,44,45,46,47,49,50,52,55,58,60,62},
     {0,1,4,8,10,12,13,15,16,17,21,25,28,36,38,42,43,44,45,47,48,49,50,51,52,55,56,57,63},
     {0,2,3,5,8,9,10,11,12,14,15,16,18,19,21,22,23,26,27,28,29,32,33,35,36,37,40,43,46,49,51,54,56,57,58,62},
     {0,1,2,5,7,13,17,22,24,25,27,29,31,32,33,34,37,38,39,40,41,42,43,44,50,54,58,59,60,61,62},
     {1,3,4,5,8,11,12,13,19,20,22,23,25,26,28,29,32,33,36,37,42,43,44,45,48,49,51,57,59,63},
     {0,1,2,3,5,6,12,13,16,17,18,19,20,22,23,24,29,32,33,35,37,41,45,47,48,50,51,53,56,59,60,61,63},
     {1,2,4,5,6,10,11,12,14,15,16,18,19,20,21,22,24,25,26,27,29,30,31,32,33,37,38,40,41,43,44,46,47,48,49,53,54,55,56,61,62,63},
     {1,3,4,6,8,13,14,15,16,17,18,19,21,25,28,31,32,33,38,40,41,43,44,47,49,55,56,57,60,63},
     {0,3,4,5,6,7,8,9,10,12,13,14,15,24,27,28,29,30,35,37,40,44,48,50,52,53,57,58,59,60,61},
     {0,1,2,3,4,7,8,12,14,15,18,19,20,22,23,27,30,31,37,40,46,47,50,52,56,59,60,61,62},
     {0,2,3,4,7,8,9,10,11,12,19,20,21,23,25,26,27,30,31,33,36,37,38,39,42,44,48,50,52,53,59,61,62},
     {0,1,2,3,4,6,10,12,13,15,17,18,19,20,21,23,28,29,34,36,38,42,43,44,45,47,48,50,53,59,60},
     {0,1,3,5,8,10,12,13,14,20,22,23,27,28,33,35,36,37,38,39,40,41,42,44,48,49,52,53,55,59,61,63},
     {0,1,4,6,7,9,10,11,12,14,16,19,20,22,25,26,27,29,30,32,33,34,35,36,38,39,41,42,43,44,45,48,49,52,53,55,57,59,60,62},
     {0,4,9,10,13,15,16,17,18,19,21,22,26,27,29,30,34,35,36,37,39,40,41,42,43,44,45,46,47,48,50,51,52,53,56,59,61,62},
     {0,1,4,5,7,8,10,11,13,14,15,17,18,19,23,24,25,26,28,29,30,34,35,37,39,40,41,42,45,46,50,53,56,58,59,60,62,63},
     {1,3,4,8,9,10,12,13,15,18,21,23,25,27,28,29,31,33,34,37,39,40,43,45,49,50,51,52,54,55,56,58,59},
     {0,1,5,6,9,10,11,12,15,16,21,22,26,27,29,31,32,33,34,35,38,39,40,41,43,44,46,47,51,54,56,57,58,61,63},
     {4,6,14,17,20,21,22,23,24,25,27,28,29,30,31,32,38,40,43,50,51,53,54,56,58,61,63},
     {1,2,3,5,6,7,8,11,13,14,15,16,20,21,24,27,28,32,33,34,35,37,38,39,40,41,42,43,46,50,55,56,57,58,59},
     {1,3,4,5,12,13,17,20,24,25,26,29,30,32,33,35,37,39,42,44,45,50,51,53,54,57,59,60,61,63},
     {0,1,2,8,11,15,18,19,20,22,23,25,26,28,30,32,36,37,38,40,45,47,48,49,52,53,54,55,58,59,62,63},
     {1,2,3,4,6,9,12,15,17,18,20,23,26,27,28,30,31,32,33,34,37,41,42,43,48,51,52,53,54,55,56,57,59,60},
     {2,8,12,13,14,15,16,17,18,21,23,24,25,26,27,28,29,42,43,50,51,56,60,61},
     {0,1,2,3,5,6,7,8,9,10,15,16,20,21,23,28,29,34,37,38,39,40,42,49,51,54,56,59,63},
     {0,2,3,4,5,6,9,10,12,14,19,20,22,23,25,28,29,30,34,36,37,39,42,43,44,45,46,47,49,53,54,55,56,57,61},
     {0,5,6,8,9,10,11,13,14,26,27,29,30,33,34,36,37,38,41,44,48,51,52,53,54,55,57,58,59,61},
     {0,3,4,10,11,12,13,15,17,18,19,22,24,25,26,30,32,34,36,40,41,43,46,47,49,50,51,53,54,57,58,60,61,62}
    >>,
    <<
     {0,1,2,3,4,5,7,12,14,16,17,20,21,22,23,24,25,26,27,28,29,32,33,34,35,36,37,39,40,41,42,43,46,49,50,51,52,54,55,56,57,58,59,60,62,63},
     {2,3,4,5,6,9,13,16,17,19,20,22,26,27,29,30,31,33,36,39,42,43,45,46,50,51,54,56,57,60},
     {2,4,5,10,16,20,21,22,24,28,29,30,32,33,35,36,37,39,40,41,43,47,49,51,52,54,55,57,58,59,62,63},
     {0,1,2,5,6,7,8,9,10,11,12,14,16,23,26,27,28,30,31,33,34,35,37,38,40,42,45,47,53,56,57,59,60,62,63},
     {0,1,5,7,9,10,11,12,17,21,22,23,26,27,31,32,34,37,38,39,40,41,43,47,52,56,59,60},
     {3,4,6,8,9,11,12,14,16,17,20,21,22,23,26,27,35,36,37,39,40,41,42,44,45,46,47,49,52,53,54,55,57,58,61,63},
     {0,2,4,6,7,8,11,12,13,14,15,20,22,23,24,25,26,27,28,29,30,31,32,39,43,44,45,46,47,48,49,53,54,57,59,63},
     {4,5,6,8,9,10,13,14,15,16,18,25,26,28,30,31,35,37,39,40,41,43,45,48,49,50,54,55,56,57},
     {0,1,7,8,9,13,20,27,28,29,30,31,32,33,34,36,37,39,40,44,53,54,55,56,57,58,60},
     {0,3,5,6,7,9,13,14,17,18,21,24,26,27,29,30,31,36,37,40,41,43,45,47,48,51,53,54,55,62,63},
     {0,2,5,7,8,9,10,11,12,18,22,24,27,28,30,31,38,39,40,42,43,44,46,48,49,55,58,59,60,61},
     {1,5,6,8,10,11,12,14,16,17,20,23,25,27,29,33,35,36,37,38,46,47,49,51,59,61,62},
     {0,1,2,4,9,11,12,13,14,15,17,20,22,26,27,28,29,30,33,34,35,36,37,41,42,43,46,49,51,52,53,56,57,59,60,61,62},
     {0,7,10,13,19,20,21,23,25,26,28,29,32,36,37,38,41,43,44,45,47,48,51,52,54,56,58,59,60,62,63},
     {0,2,7,8,9,12,15,17,19,21,23,25,26,29,30,34,36,37,38,39,41,42,43,44,45,46,49,50,56,57,58,61,62,63},
     {4,6,7,9,11,12,13,15,17,24,25,26,27,35,39,43,45,47,48,50,53,57,59,61},
     {0,1,5,6,7,8,13,14,18,24,29,30,32,33,34,37,40,46,48,50,51,55},
     {3,6,8,9,12,13,16,18,19,20,21,26,27,28,29,30,31,34,37,41,42,43,45,47,49,52,53,54,55,56,57,61,62},
     {2,3,4,5,6,7,11,12,14,18,21,22,23,24,25,30,32,33,34,35,38,39,40,43,46,52,53,56,58,59,61,62,63},
     {1,2,6,7,8,11,12,14,15,19,20,21,23,27,30,31,32,34,35,38,39,42,43,44,45,49,50,51,52,53,54,55,59,62,63},
     {1,3,4,5,7,8,10,11,13,14,16,17,19,20,21,22,26,28,29,30,33,36,37,38,39,40,41,42,44,49,50,56,59,62},
     {1,3,5,6,7,8,9,10,12,13,17,19,22,26,27,29,30,35,36,41,44,46,47,48,49,52,54,57,60,61,63},
     {0,1,6,7,10,14,15,17,20,24,26,28,29,30,31,33,34,36,37,38,40,42,45,46,49,56,57,59,60,61,63},
     {0,2,3,4,5,6,8,10,18,20,22,23,25,26,27,28,29,30,31,33,34,35,39,40,45,46,49,51,55,59,62,63},
     {2,4,5,8,10,12,14,15,17,18,22,25,26,27,31,32,37,38,39,40,42,45,46,52,53,54,56,59,61,63},
     {1,3,6,7,9,11,12,15,16,19,21,22,23,24,25,26,28,29,31,32,35,36,37,38,40,41,42,43,44,45,46,49,50,52,55,58,59,60,61,62},
     {0,1,2,4,6,7,8,9,14,15,21,23,24,25,26,29,34,35,39,40,42,45,48,50,51,52,55,60,61},
     {1,4,6,8,9,11,16,18,20,21,22,23,24,25,27,30,34,35,37,38,39,41,42,43,44,45,48,49,51,52,53,55,56,57,58,60,61},
     {1,2,6,9,10,12,14,16,18,19,20,21,22,23,24,25,26,28,29,30,31,33,34,36,38,39,41,46,47,51,52,53,54,55,57,58,59},
     {6,7,11,13,16,18,22,26,28,31,32,34,39,40,42,46,48,51,52,54,58,59,60,61,63},
     {4,9,10,11,14,16,18,19,22,23,25,27,31,32,33,35,38,41,43,45,46,47,49,51,52,55,56,57,58,59},
     {0,1,3,4,7,8,9,12,14,16,17,19,20,21,22,24,25,26,27,28,29,31,33,35,36,37,39,40,41,42,45,46,51,54,60,62},
     {0,1,3,5,9,13,14,17,21,23,25,26,27,33,38,39,45,49,50,52,54,55,58,59},
     {1,3,4,5,7,8,11,13,15,18,19,23,24,26,28,31,33,35,37,38,39,40,41,42,43,46,47,49,50,51,57,59,60,61,62},
     {2,5,6,8,10,11,14,15,17,19,20,21,23,31,32,33,34,37,38,42,44,45,46,47,50,51,52,54,56,57,59,61,62,63},
     {1,3,6,7,8,11,12,14,15,16,17,19,22,25,27,28,30,31,32,33,35,36,37,38,39,40,45,46,47,48,49,50,52,53,54,55,56,57,58,63},
     {0,2,5,6,7,9,15,16,18,19,22,27,29,37,38,39,43,45,47,48,49,50,51,55,57,58,59},
     {1,5,8,9,11,12,15,16,18,20,21,22,23,24,26,28,29,30,31,33,37,38,42,43,48,57,63},
     {0,1,4,6,8,9,10,11,13,17,23,26,28,36,38,39,40,42,44,47,48,52,53,54,55,56,59,60,62,63},
     {1,2,4,7,8,11,12,13,17,20,23,24,25,26,27,29,32,35,37,40,42,43,44,47,49,51,55,56,60},
     {0,7,11,12,13,18,20,22,27,28,31,36,41,45,46,47,48,50,53,54,56,60},
     {2,3,6,7,9,11,12,13,15,17,19,20,22,23,26,27,29,31,34,35,37,38,39,41,42,43,45,53,55,58,59,60,62,63},
     {1,2,4,7,9,12,14,17,18,20,21,26,27,28,29,32,33,34,35,37,39,40,42,44,46,47,48,50,51,52,54,56,57,58,61,62},
     {1,3,7,8,9,13,14,15,20,21,23,25,26,27,28,32,33,35,39,40,44,45,46,50,51,56,60,61,62,63},
     {0,3,4,7,9,10,11,12,14,15,16,19,21,22,23,24,25,29,30,31,35,36,37,38,40,41,42,43,44,45,49,50,52,54,55,56,60,63},
     {2,4,11,12,13,14,15,16,17,18,24,25,26,27,28,29,32,33,41,43,50,52,53,58,60,63},
     {1,2,4,6,11,13,14,17,20,21,27,28,31,33,34,35,36,37,38,41,47,50,51,53,57,59},
     {0,2,5,6,8,11,14,15,16,17,18,19,23,25,26,27,28,31,34,36,38,40,42,43,44,46,47,50,51,52,53,54,55,58,60},
     {0,1,5,6,7,9,12,14,17,20,22,24,25,27,29,30,33,36,39,40,41,43,44,47,48,51,54,59,61,63},
     {2,3,10,11,15,16,17,19,21,22,24,26,28,31,32,33,36,37,41,42,44,45,47,49,52,53,55,60,63},
     {0,2,4,7,9,10,12,16,18,20,22,23,24,26,31,32,33,34,35,36,37,40,42,43,44,47,48,50,51,52,53,54,55,60,62},
     {0,2,4,6,7,11,13,14,15,19,22,24,25,26,27,29,30,31,33,37,38,41,43,47,48,54,55,57,62},
     {3,4,5,7,10,12,14,17,19,22,26,28,29,32,33,35,36,38,40,43,45,48,49,52,53,54,56,57,59,61,63},
     {0,2,3,7,11,12,14,19,20,22,24,25,26,28,29,31,33,35,36,39,41,43,44,46,49,50,51,53,54,60,62},
     {0,2,3,4,6,7,8,10,15,17,19,20,24,26,27,28,29,32,36,44,46,48,49,50,51,52,53,54,55,56,57,62},
     {1,2,5,7,11,12,13,17,20,22,24,26,29,30,32,34,37,40,42,43,44,45,48,55,56,61},
     {2,3,4,5,6,7,8,9,13,14,15,16,17,20,21,22,23,24,25,27,29,31,35,37,41,43,47,48,49,50,51,52,53,56,58,61,63},
     {1,6,7,8,9,11,12,15,18,19,22,23,26,27,30,32,34,36,37,38,40,41,43,45,47,50,51,56,58,60,61,62},
     {1,3,8,10,11,12,13,14,15,20,21,22,23,28,30,32,33,35,36,37,40,42,45,50,52,54,55,56,58,59,61,62,63},
     {1,4,5,6,7,12,13,17,19,20,21,22,30,31,32,33,35,36,38,43,46,50,51,55,56,57,58,59,61,62,63},
     {0,1,7,8,9,10,11,13,17,20,23,25,28,32,33,36,37,38,40,41,42,43,44,45,46,49,53,54,57},
     {0,1,2,5,8,9,12,13,17,20,22,24,26,28,29,30,32,34,35,37,38,39,41,43,46,50,56,57,58,59,60,63},
     {1,6,7,8,10,12,13,15,17,19,20,23,24,25,26,27,28,29,30,31,34,37,38,39,40,43,44,46,53,60,63},
     {0,2,3,6,8,10,11,13,24,25,26,27,28,29,30,31,32,34,36,40,41,42,43,44,46,51,52,55,56,59,60}
    >>,
    <<
     {5,6,7,9,10,12,13,16,22,23,25,28,32,33,35,39,43,45,46,49,53,55,56,59,63},
     {0,1,3,5,6,7,8,9,10,14,16,20,23,25,26,28,29,34,35,38,39,43,45,47,48,55,56,63},
     {0,1,2,3,5,7,10,11,13,18,21,22,23,24,25,30,35,37,38,42,43,45,47,51,53,54,55,56,61},
     {1,2,3,4,5,9,10,12,17,19,21,22,23,25,26,27,29,30,31,32,35,36,39,42,45,47,51,52,54,56,59,60,62},
     {0,7,12,14,23,24,29,30,31,32,33,37,39,41,42,43,46,50,51,52,55,56,60},
     {0,1,6,7,9,11,12,14,15,16,17,18,20,24,29,30,31,34,37,38,42,43,45,46,48,51,55,57,58,59,60,61},
     {1,4,6,7,8,9,12,14,16,19,20,23,25,26,27,28,30,33,36,40,41,42,43,45,46,47,50,52,53,54,55,59,62},
     {3,4,5,7,11,12,17,21,22,27,29,37,40,42,43,44,46,47,50,51,53,60,61,62},
     {1,4,5,8,9,10,11,14,20,21,22,24,26,28,30,31,34,35,40,42,44,46,52,56,57,59,63},
     {0,1,6,8,12,13,16,17,19,20,26,28,29,31,33,34,37,38,40,41,46,47,48,52,53,54,56,58,59,62},
     {2,3,5,6,7,8,11,13,14,15,17,18,20,23,26,27,28,31,34,35,36,37,38,40,41,42,43,46,47,48,50,51,52,54,55,56,57,59,60,61,62,63},
     {0,3,4,6,9,10,11,14,16,17,19,20,21,23,26,27,28,29,30,31,32,36,41,43,44,49,50,51,52,55,57,58,59,62,63},
     {1,2,5,6,7,8,10,11,12,13,14,15,17,19,21,22,24,25,26,29,31,32,33,34,35,38,43,45,47,51,53,54,56,57,58,63},
     {4,5,6,7,8,12,13,15,25,32,36,37,40,42,44,48,51,52,53,54,55,57,59,61,63},
     {1,3,4,7,10,11,12,13,15,16,18,19,21,24,28,30,31,33,34,36,38,41,43,45,46,49,51,52,53,54,55,56,58,59,63},
     {1,3,5,6,7,8,10,12,18,21,23,26,27,30,33,34,35,36,38,44,47,48,49,50,55,57,58,59,61,62,63},
     {0,1,2,6,7,8,9,10,12,14,15,16,17,20,22,23,24,27,29,31,33,35,36,40,42,45,47,50,55,57,59,60},
     {1,2,3,5,6,8,9,10,12,13,15,16,18,19,20,22,28,29,30,31,32,34,38,39,40,42,43,45,46,47,50,51,54,55,61,62,63},
     {0,1,2,3,8,9,10,13,14,15,21,22,25,29,32,33,34,35,37,38,39,40,43,50,52,53,55,56,57,62},
     {2,3,5,7,8,9,11,12,13,15,18,19,23,24,26,27,28,32,33,34,36,38,41,42,44,45,50,54,55,56,57,61,62,63},
     {0,3,5,7,8,10,12,13,15,17,18,21,22,24,25,27,28,32,33,35,36,40,42,48,49,50,51,57,58,59,60,61,63},
     {0,1,2,4,7,12,21,23,24,26,27,31,33,35,37,40,41,42,43,45,46,48,49,51,54,55,56,57,58,61},
     {0,3,4,6,7,10,11,12,15,19,20,21,23,24,26,30,32,33,35,36,38,39,40,42,43,45,48,53,59,62},
     {0,1,3,5,7,13,17,18,20,22,23,25,27,28,31,32,34,35,37,40,41,44,46,47,48,49,51,53,54,55,56,58,60,61},
     {0,1,2,5,7,9,10,11,13,14,16,18,20,21,23,24,25,26,28,29,31,33,35,37,39,48,49,50,54,55,56,57,58,60,62},
     {0,1,3,10,12,13,14,15,17,18,19,20,26,28,29,33,36,38,39,40,41,42,43,46,47,48,49,50,51,52,53,54,55,56,57,58,59,61,63},
     {0,3,5,8,9,11,13,14,16,18,19,20,22,25,29,31,33,35,39,41,42,43,44,45,46,51,52,54,57,59,60,62,63},
     {1,2,5,6,7,9,12,13,14,18,20,23,24,25,30,32,36,37,38,39,42,43,44,45,46,49,53,54,56,63},
     {5,6,10,11,13,14,20,24,26,27,28,29,30,32,36,37,38,40,41,43,44,45,46,48,51,54,62},
     {0,1,2,6,7,8,13,18,22,23,24,25,26,29,30,31,35,36,37,38,42,43,44,48,50,51,52,53,54,59,61,62,63},
     {6,7,14,17,19,20,23,27,28,30,31,32,33,34,35,43,45,48,56,58,59},
     {0,3,6,8,9,10,11,12,14,15,21,23,24,25,26,28,32,33,37,40,41,42,44,45,46,53,54,57,61,63},
     {0,1,4,5,9,10,12,13,14,16,17,18,19,21,22,26,27,29,30,34,35,36,43,45,52,54,58,60,62,63},
     {0,1,4,5,6,7,8,9,15,18,20,22,23,25,26,30,32,34,35,37,40,42,46,48,51,54,56,57,59},
     {1,2,3,6,7,9,10,11,12,14,19,21,22,23,33,34,36,41,42,44,45,46,47,48,49,53,54,56,58,60,62},
     {0,2,3,6,7,8,12,19,21,22,24,26,30,31,37,39,40,42,45,46,48,50,51,52,53,54,56,61},
     {2,4,5,7,10,11,12,14,15,16,19,20,24,25,29,31,33,37,38,39,40,43,50,52,54,55,57,59,60,61,62,63},
     {0,2,3,4,15,16,17,18,19,24,25,30,32,33,34,35,36,37,39,40,41,42,43,45,46,48,50,51,52,54,56,59,61},
     {0,1,2,3,4,8,9,10,11,14,16,22,23,24,26,27,28,29,31,32,35,38,39,40,45,50,51,52,56,60,61,62},
     {0,3,4,7,8,10,11,13,14,15,17,19,20,21,24,26,27,31,34,35,36,37,40,41,42,43,44,47,49,50,53,55,58,60,61,63},
     {0,3,6,7,8,9,13,14,15,18,19,20,21,22,24,26,27,29,30,36,37,39,40,41,42,44,47,48,49,50,52,55,56,57,58,59,63},
     {1,2,5,7,9,10,12,13,15,16,19,20,21,22,25,35,38,42,46,47,48,49,53,55,58,59,60},
     {0,5,6,9,10,11,13,16,17,22,24,25,28,32,33,37,39,40,41,43,44,46,47,49,50,51,53,54,55,56,60,61,62,63},
     {4,5,7,9,14,16,17,20,25,29,30,31,32,35,37,38,40,43,45,47,49,50,53,54,55,60,61,63},
     {1,3,5,6,7,10,11,12,14,15,16,17,18,21,22,24,25,26,29,30,31,32,33,35,36,37,38,39,40,41,43,45,46,51,53,57,58,61},
     {0,1,3,4,5,9,10,11,14,15,16,17,19,21,23,24,25,27,31,33,34,35,36,38,39,40,41,45,48,51,52,53,56,59},
     {0,1,3,5,6,7,10,19,21,23,24,26,28,30,31,35,36,38,44,45,46,47,50,55,57,58,59,60,62},
     {4,6,7,11,12,14,16,17,18,19,20,24,26,28,31,33,37,38,39,43,46,49,52,53,54,56,58,59,63},
     {0,1,2,4,5,6,8,11,12,13,14,16,19,21,22,23,24,26,29,32,33,34,36,39,47,49,50,57,58,59,61,62},
     {1,8,10,14,21,23,29,33,34,35,36,38,39,40,41,43,46,48,50,52,53,55,57,59},
     {0,1,2,5,6,7,10,17,19,21,22,23,25,26,27,30,33,35,37,40,42,43,46,47,48,51,52,54,56,58,59,60,62},
     {0,3,7,9,10,13,15,16,17,21,25,26,29,30,31,32,33,34,40,41,43,44,46,47,49,50,51,52,54,55,57,58,59,61,62,63},
     {1,2,3,4,6,7,8,9,11,13,15,17,18,19,22,23,24,25,27,30,31,32,33,34,37,39,41,43,44,46,47,48,53,54,55,59,60,61,62,63},
     {0,4,5,8,16,17,18,20,22,26,27,28,30,31,32,33,34,37,38,39,42,43,47,49,50,52,53,57,59},
     {6,7,10,11,13,14,15,16,17,18,19,20,25,26,29,30,31,33,34,38,39,41,45,46,48,51,52,55,56,57,59,60,62},
     {2,3,5,6,8,9,12,15,16,17,18,22,23,24,26,28,29,33,34,36,37,42,43,45,46,47,48,49,51,52,55,57,58,59,61,63},
     {0,1,2,6,9,10,11,13,16,21,22,23,24,25,26,27,28,29,33,35,36,37,38,39,40,42,45,50,51,52,53,55,57,59,61,63},
     {0,1,6,7,9,10,11,13,15,20,22,25,27,28,33,35,38,39,41,42,43,45,47,49,51,55,57,59,60,62},
     {2,3,4,5,7,9,12,13,15,16,18,20,21,23,24,25,26,30,31,32,33,34,36,37,39,41,42,47,50,52,54,56,57,58,59,63},
     {2,3,4,6,7,9,10,13,15,17,18,20,22,25,29,30,31,32,33,38,42,43,45,48,50,51,53,54,55,56,57,58,59,60,62,63},
     {0,1,2,3,4,5,8,11,12,14,19,27,29,30,34,41,45,46,48,50,51,54,56,59,60,61,62,63},
     {1,3,5,10,11,13,15,16,17,21,22,23,25,26,27,28,31,32,35,36,38,39,40,41,46,47,48,50,51,52,54,55,56,57,58,59,60,61,63},
     {0,2,3,4,5,7,9,10,11,14,15,20,23,24,25,26,29,32,35,36,39,40,41,43,44,46,47,49,50,51,52,53,54,55,58,59,61,62,63},
     {0,2,4,5,7,9,10,11,13,15,18,19,25,26,27,29,30,31,34,35,38,40,44,46,47,49,51,52,55,58,59,60,61}
    >>,
    <<
     {2,4,7,10,11,14,15,17,18,20,22,24,26,27,28,30,31,32,34,36,37,40,41,42,44,45,47,48,51,52,55,56,59,61},
     {0,3,5,6,8,9,13,15,19,21,22,23,24,27,28,29,30,31,32,35,37,38,40,42,45,46,48,50,54,55,58,59,62,63},
     {1,3,4,6,10,11,12,13,15,17,18,19,23,24,25,26,27,30,31,36,38,39,40,42,43,46,48,49,52,54,56,58,59,61},
     {4,9,10,11,12,13,14,18,21,23,24,29,30,31,32,33,34,35,37,38,45,50,51,55,56,59,61,62},
     {1,3,4,5,9,10,13,14,19,20,22,25,26,32,33,36,39,42,44,47,49,51,53,54,55,56,58,59,61},
     {0,3,5,8,10,11,12,13,14,16,17,18,19,23,26,27,28,29,31,32,40,41,44,45,48,49,51,53,55,58,59,61,62,63},
     {1,2,6,8,9,11,12,17,19,24,26,28,30,35,37,40,41,43,44,45,46,49,51,54,59,62,63},
     {0,3,5,8,9,12,13,14,15,16,19,22,25,26,27,29,30,31,33,35,37,39,43,49,50,53,54,56,59,61,62},
     {1,5,11,14,16,17,18,19,20,22,24,26,27,30,31,33,35,36,39,43,48,49,50,51,52,53,54,56,57,59,61,63},
     {0,1,2,6,7,10,11,14,16,17,20,21,24,26,27,28,30,31,32,34,35,40,41,43,44,45,47,50,51,53,58,59,60,61,63},
     {1,3,5,6,10,14,16,18,19,23,24,25,26,27,30,31,33,37,38,40,41,45,46,47,48,49,50,55,56,57,58,59,60,61},
     {0,1,3,8,13,14,16,18,19,22,26,30,32,36,39,44,45,48,54,55,59,61},
     {0,1,2,3,4,5,13,14,16,20,23,24,27,30,31,34,37,39,40,41,42,44,45,46,47,49,50,55,56,57,60,61,63},
     {0,1,2,5,7,8,9,10,13,18,19,21,23,24,25,27,28,33,35,36,40,46,49,50,51,53,54,55,56,61,62},
     {4,7,9,12,14,17,18,22,24,25,26,27,28,30,31,33,35,40,41,43,44,46,47,48,51,53,54,55,56,59},
     {0,1,2,4,5,6,10,14,15,18,19,22,23,24,25,27,28,30,31,32,34,37,42,45,48,49,50,51,52,53,54,59,60,61,62},
     {0,7,9,11,13,14,16,20,21,22,23,27,28,29,36,37,38,42,44,45,48,49,50,52,56,57,60,61},
     {4,6,7,8,12,14,15,16,17,19,24,28,30,31,33,36,37,38,39,40,43,45,47,48,49,50,51,52,56,57,59,61,62,63},
     {2,4,6,7,9,10,11,13,14,17,18,20,22,23,24,26,28,29,30,32,33,37,38,39,41,42,44,45,48,49,55,56,59,60,62},
     {1,3,4,8,10,11,12,13,14,15,21,25,26,27,30,32,33,34,36,42,43,45,47,49,50,51,57,60,62,63},
     {1,2,5,8,9,14,15,16,17,19,20,23,24,25,27,30,31,32,33,35,38,39,41,42,48,49,50,51,56,57,58,59,60,62,63},
     {1,3,4,5,7,9,12,13,15,16,17,22,25,27,28,29,32,33,34,36,39,42,47,48,52,56,59,60,61},
     {0,1,3,4,6,8,9,10,11,12,14,15,17,18,19,25,26,33,35,36,38,40,41,42,43,45,46,47,48,49,50,52,53,54,55,59,61,63},
     {0,1,2,4,5,10,12,13,14,15,20,21,22,24,28,29,36,38,39,40,42,43,44,46,47,48,57,58,61,62},
     {2,3,5,7,8,11,12,13,14,15,19,26,28,30,33,35,37,39,40,41,42,47,49,52,54,56,57,58,62},
     {0,3,10,11,12,13,17,18,22,24,26,27,28,30,31,36,37,38,39,41,42,43,47,48,50,54,55,56,60},
     {4,6,8,9,11,17,18,23,24,25,26,28,29,30,31,33,34,36,42,43,44,45,47,51,52,53,54,55,56,58,62,63},
     {3,4,6,10,11,12,13,15,18,20,21,22,24,25,26,30,32,36,37,38,41,42,44,45,47,50,53,54,55,56,59,60,62},
     {0,2,4,5,7,8,10,13,19,20,21,26,29,31,32,33,35,40,43,45,46,51,53,54,57,63},
     {1,2,3,4,7,9,12,14,16,20,22,25,26,29,30,32,34,35,37,41,42,45,46,47,50,52,53,54,55,56,58,59,61,63},
     {0,2,5,13,15,18,19,21,24,25,27,28,29,30,31,32,34,35,39,40,42,43,45,49,51,52,53,54,55,56,57,58,60,62,63},
     {0,1,2,5,8,9,10,11,13,14,16,18,22,24,27,31,35,36,38,39,42,43,44,45,49,50,54,55,58,60,62},
     {0,3,4,5,6,11,12,14,15,16,20,21,22,28,29,30,31,36,37,42,44,46,47,52,56,57,58},
     {1,2,5,6,8,11,16,17,18,23,24,26,27,28,32,33,35,36,38,39,41,42,44,47,48,50,55,61,62,63},
     {1,5,7,10,11,13,18,19,21,22,27,28,29,30,31,34,35,38,39,40,41,42,43,44,45,46,47,49,50,51,52,54,55,57,62},
     {0,1,3,4,6,7,9,10,11,12,15,17,18,20,21,23,24,26,27,29,32,34,35,36,38,40,41,42,47,48,53,55,58,60,63},
     {0,1,2,4,9,10,13,15,19,21,22,25,26,28,29,30,31,33,35,36,37,38,43,44,45,46,47,48,51,54,55,56,57,59,60,61,62,63},
     {0,2,7,9,11,12,15,16,18,20,21,22,23,24,25,30,33,38,40,43,44,45,48,49,51,54,55,56,59},
     {2,3,4,5,6,7,10,14,22,23,24,25,27,28,34,35,38,39,42,45,46,47,51,52,53,55,59,60,63},
     {2,3,9,12,15,16,17,18,19,20,21,24,25,26,27,29,30,34,38,40,41,44,45,46,47,49,50,51,52,53,54,59,60,62},
     {0,3,4,6,7,8,10,11,13,14,15,16,23,25,27,28,29,31,32,33,37,38,40,41,43,44,46,48,49,52,54,56,59,62,63},
     {0,1,2,3,4,11,13,16,18,19,22,28,30,32,36,37,38,41,47,48,49,50,52,53,55,56,57,58,59,61,62},
     {0,2,4,6,7,15,20,21,24,25,27,28,31,32,33,34,35,37,38,40,45,46,47,49,50,52,53,54,55,56,57,59,60,61,62,63},
     {0,2,3,5,8,9,10,11,12,15,18,19,21,22,23,25,31,32,35,36,38,41,42,44,45,46,47,49,51,52,55,56,58,59,60},
     {0,1,5,6,7,9,11,13,18,19,20,23,25,29,30,32,35,37,40,44,45,46,47,48,50,54,57,58,61,62,63},
     {0,2,3,5,9,10,14,16,17,19,20,23,24,25,28,31,32,34,35,37,39,48,51,53,55,60,61},
     {2,3,7,9,10,11,12,13,14,16,18,20,21,24,30,33,35,37,38,41,43,45,46,47,50,51,52,54,56,57,59},
     {4,6,7,8,9,12,13,14,15,17,20,21,22,24,26,28,29,31,32,34,36,37,40,41,42,44,45,46,48,53,55,56,57,58,59,61,62},
     {0,1,5,6,7,9,10,12,14,15,17,18,19,21,22,34,36,37,38,39,40,41,42,43,44,45,46,48,51,52,56,58,63},
     {1,2,4,5,6,9,10,11,12,13,14,17,20,21,22,23,26,27,29,30,31,40,41,42,43,44,45,46,48,49,50,52,53,54,57,58,59,62,63},
     {2,3,5,6,8,10,11,12,13,14,15,16,17,18,20,22,23,24,27,31,32,34,37,39,41,42,43,44,46,47,48,50,52,54,55,56,57,58,59,61,63},
     {2,4,5,6,12,15,18,19,21,27,28,29,31,32,33,35,37,38,40,42,44,48,50,52,53,55,60,61,62,63},
     {1,3,5,7,12,13,14,20,21,22,23,24,26,27,28,29,31,32,39,47,49,50,51,53,55,58,59,60,61,63},
     {0,1,6,8,9,10,11,14,17,18,19,21,23,24,25,27,29,31,33,35,36,37,38,39,42,45,46,47,52,53,54,57,60,61},
     {1,2,4,6,9,10,11,12,15,16,18,19,20,21,24,26,27,28,30,32,33,37,39,40,47,48,51,53,54,57,58,59,61,62},
     {1,3,5,7,8,10,11,14,15,16,19,21,22,23,24,28,32,34,35,37,44,45,46,48,51,53,54,55,57,60,61,62,63},
     {2,4,8,9,11,12,13,14,16,17,19,25,27,29,31,32,34,39,40,41,45,47,48,49,50,52,53,55,56,57,59,61,62,63},
     {0,1,2,3,6,8,10,11,12,13,14,15,16,17,18,23,26,28,30,32,33,34,37,38,39,42,43,44,48,49,50,55,56,57,58,59,60,63},
     {1,2,7,9,10,14,15,18,19,20,22,28,30,33,34,37,38,39,41,46,47,48,49,52,54,55,56,59,61,63},
     {0,1,4,7,8,9,10,15,16,17,18,20,24,27,28,30,31,33,34,36,38,39,40,44,45,46,48,49,50,53,54,55,56,57,58,59,60},
     {5,7,12,14,15,16,22,27,28,29,31,32,33,36,37,43,44,45,46,48,51,53,54,57,58,61,62,63},
     {4,7,8,9,11,13,14,15,16,21,22,23,26,27,30,33,34,35,36,38,39,40,41,42,46,47,49,52,54,55,56,63},
     {1,2,4,7,8,9,10,14,16,18,19,21,24,25,26,27,30,32,35,38,41,42,43,44,45,46,48,51,52,53,55,57,59,61,63},
     {0,2,4,12,13,14,18,19,23,27,29,30,34,40,43,44,45,47,55,56,57,60,62}
    >>
   >>,
   <<
    <<
     {1,2,4,5,9,10,12,13,15,16,17,24,25,26,29,30,33,34,37,46,50,51,52,53,54,57,60,61,63},
     {5,8,9,10,11,20,21,23,24,25,27,30,32,33,35,36,37,38,39,40,43,44,45,46,47,48,50,51,53,54,55,56,58,59,63},
     {1,2,4,5,6,7,9,10,11,13,14,15,16,18,20,23,29,33,34,36,37,39,41,42,43,45,46,50,51,52,56,60,61},
     {1,2,3,4,5,6,7,9,10,11,12,14,17,21,23,24,25,27,29,30,32,37,39,44,46,47,51,52,53,57,59,61,63},
     {0,1,2,5,6,10,11,13,15,16,17,19,20,21,23,28,29,30,31,32,33,34,35,36,37,41,43,45,47,48,49,50,51,56,61,62},
     {2,3,5,6,8,10,12,13,15,18,21,22,24,26,27,29,31,33,34,35,40,41,42,43,44,45,47,48,50,55,56,57,58,59,60,61,63},
     {1,2,5,7,8,9,14,17,18,19,20,24,25,26,29,30,31,34,38,41,42,43,48,50,51,55,58,59,61},
     {0,1,2,3,5,7,9,13,14,17,20,23,24,26,27,28,31,32,35,36,38,39,40,45,46,47,52,53,55,56,60,63},
     {1,3,4,8,10,11,16,17,19,24,26,27,30,32,34,36,38,39,41,43,47,50,52,53,54,55,56,57,58,61,62},
     {1,5,6,7,10,11,12,15,16,18,22,26,27,31,36,38,40,41,48,49,50,51,53,54,56,58,60,62,63},
     {0,1,3,7,9,11,12,15,17,19,20,32,33,34,36,37,39,40,41,42,43,44,45,47,49,51,54,55,56,58,59,62},
     {2,3,5,6,8,10,11,13,16,17,20,21,22,24,27,30,32,38,43,47,49,50,51,54,55,56,58,60,61},
     {3,6,9,10,13,16,18,19,25,26,27,29,30,32,33,35,36,39,40,42,43,44,45,46,48,49,50,53,56,59,62,63},
     {1,2,5,6,7,8,13,14,15,16,19,20,21,22,26,28,31,34,37,42,43,45,49,50,51,54,56,57,59,60,63},
     {1,3,5,7,8,11,14,15,17,19,20,23,24,25,26,29,31,33,35,36,37,38,39,42,43,45,46,47,49,50,51,52,53,54,57,60,62},
     {0,3,6,8,9,10,12,13,14,16,19,24,25,26,28,29,30,34,37,38,40,41,45,46,47,51,52,56,60,61,62},
     {0,3,5,6,9,13,14,16,20,21,24,28,29,30,33,34,35,36,43,45,46,47,48,50,52,53,54,55,58,59,61,63},
     {1,3,4,7,9,13,16,18,20,21,23,25,26,28,29,33,34,35,39,42,43,46,50,51,52,54,55,57,63},
     {1,6,7,9,11,12,13,15,17,21,24,27,28,29,30,32,34,36,37,41,42,43,44,45,49,52,53,56,57,59,62,63},
     {2,6,8,11,14,15,16,17,20,21,23,25,26,29,30,31,32,33,34,38,39,42,43,47,48,49,50,52,53,55,56,58,60,61,62,63},
     {0,3,4,6,8,9,10,14,19,22,23,24,25,27,30,31,32,36,37,43,44,45,46,47,48,49,50,53,54,58,59,60,61,63},
     {0,2,5,8,10,13,14,15,20,21,22,24,25,27,29,35,36,38,40,44,45,46,49,51,53,55,59,61,63},
     {3,8,11,13,16,18,20,21,23,24,26,28,36,38,39,40,43,44,45,49,50,53,55,59,62},
     {0,3,5,7,8,11,13,15,18,20,21,22,23,24,25,31,33,34,36,37,40,41,44,46,49,52,53,54,55,56,59,61,63},
     {0,1,2,4,5,6,8,11,13,14,19,25,29,31,34,35,38,45,46,47,48,49,50,55,57,58,59,60,63},
     {0,1,3,4,6,7,8,10,13,14,15,17,18,19,22,23,24,26,28,30,33,35,37,40,43,44,45,51,53,54,55,56,57,58,60},
     {2,5,8,9,12,13,18,23,24,28,30,31,32,37,38,39,40,41,42,43,44,45,49,50,52,53,55,56,57,60,61,62,63},
     {2,6,7,9,10,12,15,17,19,22,30,31,32,33,34,35,37,40,43,44,46,53,58,59,60,61},
     {6,9,10,12,14,18,19,20,21,26,27,29,31,32,34,37,38,41,42,45,47,48,49,50,52,53,54,56,57,58,59,62},
     {0,1,2,3,4,5,6,7,10,11,17,23,24,27,28,29,33,34,36,37,38,39,40,41,42,45,46,47,49,51,52,53,54,57,58,59,62,63},
     {3,5,6,7,8,10,11,13,17,19,20,21,22,23,25,28,29,32,33,35,38,40,42,43,44,45,46,47,51,52,53,55,56,58,61},
     {0,1,2,3,9,10,11,12,13,15,22,25,26,36,39,40,43,45,47,50,52,54,55,56,57,59},
     {1,4,5,17,18,19,21,23,25,26,27,28,29,34,37,40,41,43,44,45,48,49,53,54,55,56,57,59,60,61,62,63},
     {0,1,8,11,15,17,21,23,24,27,28,29,30,32,33,34,36,37,38,40,41,44,45,46,50,51,52,53,54,58,59,60,63},
     {0,2,3,4,6,7,11,13,14,19,23,24,27,28,30,31,32,35,37,39,40,41,42,44,45,47,48,49,51,52,53,55,58,62,63},
     {4,5,6,7,9,10,11,12,14,15,18,21,23,25,28,34,37,38,40,41,42,45,49,50,52,55,58,60,61,62},
     {2,3,6,9,10,11,14,15,19,20,25,27,29,30,32,34,35,36,38,41,42,43,44,46,47,48,51,52,54,55,57,61,62,63},
     {2,3,4,6,7,8,10,11,14,19,20,21,24,29,31,33,35,40,41,43,45,48,49,50,51,52,54,56,57,60,63},
     {2,3,5,6,7,8,15,17,18,22,23,24,28,29,32,39,42,47,48,50,53,54,55,56,57,58,60,61,63},
     {0,1,2,5,7,8,10,14,18,22,25,28,29,31,33,34,36,37,39,40,43,45,46,50,51,54,57,61,62},
     {0,2,4,7,15,16,17,18,19,23,25,26,27,28,29,30,32,33,37,38,41,42,45,47,48,49,50,51,54,57,58,61,62},
     {2,4,5,7,8,9,14,15,16,18,20,21,22,25,26,27,28,29,34,38,42,43,44,45,48,49,50,54,55,56,58,61},
     {0,3,5,6,7,9,11,13,14,16,17,20,21,22,23,24,25,26,29,31,34,35,38,39,40,42,51,60,61,63},
     {0,1,2,7,9,13,14,16,17,19,21,22,24,32,37,39,41,43,44,46,48,50,55,58,61,62,63},
     {3,4,5,8,10,12,13,16,17,18,19,20,21,30,31,32,35,36,37,40,42,44,46,47,48,50,54,58,59,60,62,63},
     {0,2,3,5,8,9,10,11,12,13,15,16,21,24,26,30,31,32,35,40,43,44,46,47,48,50,51,53,55,57,61,62,63},
     {0,2,4,9,10,11,14,16,19,22,24,25,27,28,32,35,36,38,40,41,42,43,47,49,50,54,56,57,58,62,63},
     {0,1,4,7,8,13,14,17,18,20,22,23,26,27,29,30,32,33,34,40,43,44,45,46,47,48,50,59,60,61},
     {0,1,2,3,6,7,11,13,14,15,17,18,24,26,27,29,33,35,36,37,39,42,45,49,51,52,54,55,56,58,59,62,63},
     {4,5,8,9,14,16,18,19,20,21,24,26,28,29,30,31,34,35,37,41,42,46,48,49,50,53,57,60,61,63},
     {0,1,4,8,13,14,15,19,20,23,26,31,33,34,36,38,39,40,42,43,44,45,47,50,51,53,54,55,57,58,60,61,62},
     {2,5,7,10,11,12,16,17,19,20,22,23,26,27,32,35,36,37,38,40,42,45,49,52,53,55,57,58,59,63},
     {1,2,6,8,10,12,13,14,16,17,19,22,23,24,25,26,27,28,29,32,34,39,44,46,48,49,50,51,52,54,55,57,59,61,62,63},
     {0,1,2,5,9,12,15,18,19,21,24,27,28,30,31,33,34,36,37,38,40,41,43,44,46,48,52,56,57,58,59,60},
     {0,1,2,3,4,5,7,9,10,11,13,15,17,19,20,22,23,26,28,29,30,32,37,38,39,41,47,49,53,57,61},
     {0,1,2,3,5,6,8,9,13,15,16,19,21,24,26,27,30,31,33,34,35,36,37,38,39,40,41,43,44,46,47,49,52,53,54,55,57,58,60,61,62},
     {0,6,7,8,9,10,11,12,14,17,18,21,22,23,25,27,29,31,32,34,35,38,41,46,51,52,53,54,55,56,57,58,63},
     {2,8,10,15,17,18,21,22,23,26,27,28,29,30,31,35,36,38,41,43,44,45,47,48,50,52,56,57,58,59,63},
     {0,2,5,12,15,16,17,18,19,21,22,27,28,31,33,36,38,44,45,46,49,51,52,53,56,60,62},
     {0,1,5,7,8,9,11,14,15,16,18,20,21,24,25,28,29,30,31,33,36,39,44,51,52,54,56,62,63},
     {0,4,6,8,10,11,12,13,14,18,20,21,26,29,30,31,34,36,37,38,39,40,42,43,44,45,46,50,51,54,56,60,61,62},
     {1,4,6,11,14,15,17,18,20,22,23,26,27,28,31,33,36,37,42,46,50,53,55,60,62,63},
     {3,7,9,10,12,14,17,21,27,28,29,31,33,34,35,37,40,44,45,46,48,49,51,52,54,58,61,62,63},
     {0,1,6,10,13,16,19,20,21,24,31,34,35,36,38,39,40,45,46,47,49,50,51,52,53,56,58,59,61,62}
    >>,
    <<
     {0,1,4,6,9,10,11,13,21,23,26,28,30,31,32,35,36,37,39,40,45,47,48,49,50,53,59,61,62,63},
     {0,1,3,4,9,10,12,14,16,22,26,27,31,33,34,37,38,39,42,45,46,48,49,50,53,57,60,61,62},
     {0,3,4,5,9,10,11,13,14,16,17,18,19,21,23,24,26,29,30,31,35,39,41,44,47,49,50,51,52,53,55,59,61},
     {0,1,2,4,5,6,7,8,9,12,13,21,22,25,26,27,28,29,31,36,37,41,42,43,45,46,47,49,51,55,58,59,60,62,63},
     {3,7,8,9,14,18,23,24,27,28,29,30,32,35,36,39,40,42,46,47,48,49,50,52,53,56,57,60,61,62},
     {0,1,2,3,4,7,13,14,17,19,20,22,25,30,33,34,35,39,40,44,45,46,50,52,53,54,62,63},
     {4,5,6,9,11,12,16,17,19,22,24,25,26,27,28,29,32,34,35,40,46,48,56,57,58,60,62,63},
     {0,1,2,3,5,7,8,9,10,14,15,16,18,19,20,21,24,25,29,31,33,37,38,45,46,47,48,50,51,52,53,54,55,57,58,62},
     {0,4,7,8,10,11,12,14,18,19,26,30,31,32,35,36,37,39,41,44,45,47,48,50,52,56,57,58,62,63},
     {0,1,4,7,8,9,10,13,14,15,16,17,20,21,22,24,26,31,35,36,38,39,42,43,47,49,50,51,58,59,60,61,62},
     {0,3,5,6,7,8,10,12,15,17,20,21,22,29,31,32,35,36,39,40,41,42,44,45,48,49,50,51,52,53,56,58,59,60,61},
     {0,1,2,3,5,7,10,18,19,22,25,26,30,32,33,34,36,39,40,42,43,44,45,46,48,49,51,52,55,60,61,62},
     {0,1,2,4,5,6,7,9,12,13,14,15,16,18,20,22,23,24,25,28,32,33,35,36,38,45,46,47,49,51,53,55,57,58,60,61,63},
     {0,4,5,6,7,9,11,12,13,14,16,18,21,24,27,30,34,36,37,38,40,42,46,47,48,49,50,58,59,60,61},
     {0,3,4,8,9,10,11,12,16,17,18,19,23,24,26,30,35,36,37,39,41,43,44,49,51,52,53,54,55,56,58,60,62},
     {2,5,6,10,11,12,13,14,19,20,22,23,24,28,30,32,34,35,36,43,45,46,48,50,51,52,55,58,61,62,63},
     {0,1,2,7,9,11,13,14,16,17,18,22,25,27,31,32,33,35,38,39,42,43,44,45,47,53,55,58,60},
     {0,1,2,7,8,9,11,12,13,14,18,19,21,22,24,25,29,33,34,36,39,41,42,44,46,47,50,51,52,55,57,58,61},
     {3,4,6,7,8,9,12,13,14,15,16,17,20,21,24,25,27,28,29,32,33,36,38,39,40,43,44,47,49,50,51,57,61,62},
     {0,4,5,6,7,8,12,13,15,17,18,21,23,24,28,29,31,33,37,38,39,41,42,43,44,45,49,50,51,52,56,57,58,61},
     {1,2,3,7,9,13,14,15,16,17,18,20,22,23,26,28,29,31,34,35,37,39,40,42,43,44,47,48,50,54,55,57,58,60,61},
     {0,4,6,8,10,11,14,16,20,21,22,28,34,36,38,43,46,47,50,52,53,57,59,61,62},
     {1,3,4,5,7,9,10,11,13,14,19,20,22,27,29,30,33,39,42,45,47,50,52,53,55,58,60,62},
     {0,1,3,4,6,12,15,19,21,22,23,25,27,31,33,35,36,37,39,44,46,47,49,50,54,56,57,58,60,61,62},
     {0,1,2,3,5,9,10,11,13,20,21,22,25,27,29,30,34,35,36,38,40,42,45,47,52,53,54,55,56,57,58,59},
     {2,3,4,5,8,11,12,16,17,20,21,22,23,26,28,29,33,34,35,40,41,43,44,46,51,52,53,56,58,60,62,63},
     {0,1,2,3,4,7,9,10,15,17,18,19,23,24,25,27,29,30,32,33,35,39,46,47,50,52,53,55,56,57,61,62},
     {0,7,9,10,11,12,13,14,16,17,21,23,24,25,26,29,30,31,32,33,34,35,36,37,38,39,40,42,44,46,48,52,56,58,62,63},
     {1,2,4,5,6,9,11,12,13,17,18,23,24,26,28,31,32,33,34,36,40,41,42,43,44,48,52,53,57,60,61,62,63},
     {1,2,3,5,6,8,9,11,14,15,16,18,19,25,28,29,31,33,34,38,39,40,41,43,56,58},
     {3,4,6,9,11,14,15,17,20,22,24,25,27,28,30,31,32,34,37,40,41,42,44,45,47,49,52,53,54,56,61,62,63},
     {0,1,7,8,17,18,19,20,21,22,23,24,25,30,31,32,33,34,35,36,38,40,44,45,46,53,54,56,57,60,63},
     {2,4,5,7,9,10,13,15,21,22,24,29,30,33,34,43,44,46,48,49,51,52,57,59,60,61,62},
     {2,6,7,8,9,10,13,14,17,23,24,36,37,38,42,47,48,49,50,52,54,56,60,61,62,63},
     {2,3,4,5,6,8,10,11,12,14,15,18,19,25,27,28,30,33,34,35,36,37,38,39,45,46,47,48,52,53,54,58,59,62},
     {0,2,3,4,5,6,7,9,10,11,12,13,15,16,17,21,22,23,30,31,32,35,36,37,41,43,45,49,50,52,54,55,56,57,61,62},
     {0,2,4,7,12,15,16,17,19,20,21,22,25,27,28,30,31,32,33,35,36,37,39,41,42,43,44,47,49,54,58,61,62,63},
     {0,4,5,7,9,18,20,26,28,29,30,31,32,33,36,37,38,44,46,49,52,53,54,55,56,58,60,62,63},
     {0,2,3,7,9,11,12,13,14,15,18,22,24,25,27,29,30,32,33,35,37,39,41,44,46,47,51,54,55,56,59,63},
     {0,1,2,3,4,6,7,8,9,10,11,13,16,18,19,20,22,24,25,26,27,28,29,31,33,36,38,41,43,44,45,46,47,52,58,59,60,61,63},
     {0,5,7,8,9,12,14,16,17,18,19,22,23,24,25,27,31,32,33,40,43,45,50,54,55,58,59,62,63},
     {0,2,4,5,6,7,9,14,15,17,18,19,21,22,25,27,28,31,33,34,37,38,39,41,42,44,45,46,47,49,50,52,54,55,56,58,61,62,63},
     {2,3,6,8,11,12,13,16,18,20,21,22,27,28,29,32,35,36,37,38,40,41,43,44,47,50,51,52,53,54,55,58,59,60,61,62},
     {0,1,2,3,4,5,10,18,19,21,27,28,29,33,34,36,37,39,41,42,44,48,49,50,51,52,54,55,56,58,62},
     {1,2,3,4,6,9,12,13,14,15,17,20,23,24,25,26,27,29,30,32,33,34,35,36,37,39,43,48,49,52,54,58,59,60,61,62},
     {1,3,4,5,7,8,9,11,13,17,18,19,21,22,24,25,26,34,35,38,40,42,45,50,51,55,56,57,61,62},
     {1,2,3,5,6,7,8,10,12,15,18,19,25,26,28,30,32,33,34,36,37,40,42,43,46,48,49,51,52,53,56,57,59,61,63},
     {0,1,4,9,10,11,12,13,18,19,20,22,23,24,26,27,29,31,33,34,36,37,41,42,43,48,49,52,54,58,59,62,63},
     {0,1,2,3,4,10,11,14,16,23,24,25,26,29,30,32,33,34,35,36,37,38,40,41,44,45,46,47,48,49,53,54,56,59,60,61,63},
     {1,4,8,9,10,11,12,14,22,25,27,29,35,40,45,46,48,49,51,53,56,57,58,60,62,63},
     {2,3,4,5,6,8,13,14,15,17,18,21,23,24,25,26,28,29,30,33,35,37,38,42,44,48,49,50,53,54,56,57,59,61,62,63},
     {0,1,8,9,10,12,13,18,19,21,23,29,32,33,34,35,36,37,38,43,44,47,52,56,57,59,60,61,62,63},
     {0,3,4,5,6,8,9,11,12,13,18,19,22,24,25,26,27,28,31,34,35,36,39,40,41,44,46,50,51,52,53,55,59,63},
     {0,3,4,5,6,7,8,10,14,16,17,18,21,22,23,25,26,32,33,35,36,37,38,40,42,43,44,45,46,50,51,53,59,61,62,63},
     {1,2,5,6,7,9,15,17,18,19,20,22,23,26,29,30,35,36,37,38,39,43,46,49,50,55,56,57,58,60,63},
     {1,2,4,5,9,10,11,12,13,14,15,16,17,19,20,21,22,28,31,32,33,34,37,41,43,44,46,49,51,52,53,55,56,59,61,63},
     {0,1,2,3,4,5,6,7,11,13,20,21,22,23,25,26,32,37,39,42,44,47,48,50,51,52,53,54,56,58,60},
     {1,2,3,4,5,7,8,10,11,12,13,16,17,19,23,26,29,31,33,40,44,47,48,51,52,53,55,56,58,59,61,62},
     {3,7,8,9,12,13,16,18,19,20,21,23,25,29,32,33,37,38,43,44,45,46,47,48,51,53,54,55,56,58,59,60,62,63},
     {0,2,3,4,7,9,10,11,12,14,15,16,20,21,25,26,28,29,30,32,37,40,41,43,46,47,48,50,55,57,58,59,61},
     {0,1,3,5,10,12,13,14,16,17,18,19,20,22,23,26,27,34,37,39,41,43,44,47,48,51,52,55,57,62},
     {0,1,4,5,6,8,9,12,13,14,15,18,19,24,29,30,35,37,38,41,45,46,48,50,51,54,55,56,57,60,62},
     {2,3,4,6,9,10,11,12,14,16,17,18,19,21,25,26,28,29,32,35,36,38,39,42,43,45,48,49,50,53,54,58,60,61,62},
     {0,3,4,5,7,9,11,13,18,19,21,23,24,25,28,30,32,33,34,35,36,39,40,41,42,43,45,46,49,50,53,54,57,58,60,62}
    >>,
    <<
     {0,2,4,5,8,9,12,13,14,15,16,17,18,19,20,22,23,25,30,31,32,33,34,36,41,42,44,52,53,56,61,62,63},
     {2,5,6,9,11,13,14,17,18,19,24,29,30,35,36,38,40,41,44,46,47,48,49,51,52,53,56,57,58,62},
     {1,3,4,5,8,9,10,12,13,15,16,17,23,30,31,32,34,35,36,37,38,39,42,43,44,49,55,56,57,60,61,62,63},
     {1,4,5,6,8,10,11,12,13,14,15,19,20,21,22,23,26,28,30,31,32,36,37,42,43,45,47,48,49,51,53,54,55,56,57,59,61,62},
     {0,2,3,5,6,7,8,10,11,12,14,15,18,20,23,30,36,38,39,43,44,45,47,50,51,52,53,55,56,58,60,62,63},
     {0,2,3,7,9,10,11,14,15,16,17,18,20,21,22,23,26,28,32,34,37,38,40,41,42,49,50,53,54,59,60,61,62},
     {1,2,7,8,10,11,14,17,18,20,21,22,23,26,35,38,39,40,42,43,54,55,56,57,58,59,60,61,63},
     {1,2,3,4,5,6,7,8,10,11,12,14,16,17,18,20,25,27,31,32,37,38,40,41,43,44,45,46,48,50,52,54,56,58,59},
     {0,2,7,8,10,12,13,14,15,16,19,20,21,22,23,24,25,26,27,28,29,30,31,32,33,35,36,38,41,48,52,53,55,56,57,60,61,62,63},
     {0,1,6,16,17,18,20,23,24,27,28,30,32,33,34,37,39,40,41,42,43,44,47,49,50,53,54,56,59,60,61},
     {0,1,2,4,5,6,7,8,9,10,12,14,15,16,17,18,19,21,22,25,26,29,31,35,36,37,40,43,44,45,46,47,52,55,56,60},
     {0,1,2,3,4,7,8,9,13,14,15,17,18,19,20,21,22,23,24,25,26,30,31,32,33,36,38,40,41,43,45,47,52,56,58,60,61,62,63},
     {0,1,5,7,10,13,14,16,19,20,22,23,25,26,29,31,36,37,38,40,41,43,44,46,49,50,51,54,57,59},
     {0,2,3,5,6,8,10,11,13,14,16,18,20,24,30,31,32,35,36,37,38,39,42,44,47,48,52,53,54,55,56,57,58},
     {0,2,5,8,14,15,16,19,20,24,25,28,29,30,31,32,37,38,40,42,44,45,46,47,48,50,51,54,56,57,58,59,60,61},
     {0,2,4,5,8,10,11,14,16,19,24,25,28,29,35,36,37,39,40,41,44,45,47,48,49,50,52,54,55,57,58,60,62,63},
     {1,2,4,5,6,7,8,9,10,11,12,15,16,17,18,20,21,24,26,32,34,35,39,41,43,44,46,47,48,49,50,51,56,57,58,59,60,63},
     {0,1,3,7,8,9,10,15,17,24,25,26,29,33,43,46,48,52,56,58,59,60,61},
     {2,4,7,10,20,22,29,33,36,37,42,43,46,48,49,51,52,53,56,59,60,61,62},
     {0,4,5,7,8,9,10,13,15,16,21,22,24,25,27,29,31,32,36,37,38,45,47,51,54,56,58,59,60},
     {1,5,6,8,9,10,11,14,21,22,28,31,32,35,36,38,42,44,45,53,55,57,60,61,62,63},
     {0,1,3,4,5,9,10,15,18,19,22,23,24,25,26,28,29,35,36,39,40,41,42,44,45,46,50,51,56,57,58,60,61,62},
     {4,5,6,7,9,13,20,24,25,28,29,31,32,33,34,35,36,38,39,40,41,42,43,45,48,51,52,55,56,62},
     {0,2,3,4,8,9,10,11,13,14,16,17,20,22,26,30,31,32,33,34,41,43,45,46,47,48,49,50,51,53,54,57,58,59,60,62},
     {0,1,2,4,5,7,9,11,12,13,18,20,21,22,23,25,27,29,32,34,36,39,43,46,47,48,49,51,52,56,57,59,60,63},
     {0,2,6,9,12,15,18,20,21,22,24,25,27,28,31,32,33,34,36,37,38,39,40,44,46,48,49,50,52,53,55,57,58,60,61,62,63},
     {0,1,2,3,4,5,9,10,11,19,20,21,22,24,25,26,27,28,29,31,34,35,36,37,38,41,46,49,50,53,54,55,56,57,58,60,61,63},
     {0,1,3,5,7,9,10,17,20,22,24,26,27,28,37,38,41,42,43,44,46,48,50,51,52,56,57,58,62,63},
     {6,7,11,12,13,15,16,18,19,20,21,23,24,28,30,31,32,35,38,41,42,43,47,50,51,53,54,55,56,59,61},
     {2,3,6,7,12,13,14,15,16,17,18,20,21,22,23,25,26,28,29,30,31,33,34,37,40,41,42,43,44,45,53,55,56,57,58,59,62},
     {0,2,4,10,11,12,14,18,19,21,23,24,25,27,28,32,34,36,38,39,41,42,43,45,47,50,53,58,60,63},
     {0,1,5,6,10,11,12,14,15,17,20,23,25,26,33,34,36,37,39,42,43,47,48,49,51,54,55,56,58,59,61,62,63},
     {0,1,3,4,9,10,11,13,14,18,19,20,22,23,24,25,26,27,30,33,41,43,45,46,48,49,50,53,54,56,57,60,63},
     {0,2,3,4,5,7,8,13,15,17,18,21,22,24,26,27,29,31,32,33,34,36,38,39,41,42,45,46,50,52,53,54,59,61,62,63},
     {1,5,7,12,14,15,17,19,22,24,26,28,29,30,31,32,35,37,38,39,40,42,43,44,50,52,61,62},
     {0,1,5,8,10,13,16,17,19,23,24,26,29,30,32,34,39,40,41,42,44,45,50,56,60,61,62,63},
     {5,10,12,13,16,17,19,24,25,26,28,29,31,32,35,39,40,42,43,44,45,47,48,50,54,55,57,60,61},
     {1,2,6,8,15,18,20,21,22,24,25,28,34,36,37,39,40,43,44,45,47,48,49,52,55,56,57,58,60,63},
     {0,1,3,4,5,8,9,11,12,18,19,22,23,28,29,31,32,33,34,37,39,40,41,42,44,46,53,55,58,60,62,63},
     {1,3,5,8,10,12,13,14,15,17,20,23,29,31,32,36,39,45,46,48,49,51,53,57,58,59,60,61},
     {2,3,5,10,12,13,17,18,20,25,27,28,36,39,40,42,43,44,45,48,49,51,52,53,54,57,60,61,63},
     {2,4,5,7,9,10,11,14,16,22,23,24,26,30,31,32,34,38,39,40,42,47,50,52,53,56,58,59,62},
     {3,4,6,8,12,14,15,18,19,21,23,24,27,28,30,31,34,36,37,39,40,43,44,47,48,49,51,53,56,57,58,59,61,63},
     {4,6,8,9,12,15,18,20,21,23,24,27,28,31,32,33,34,35,37,39,42,44,48,49,50,52,53,57,58,59,62,63},
     {0,3,5,6,7,9,10,12,13,14,16,18,19,20,21,22,23,25,26,27,28,33,34,36,37,38,39,40,41,43,47,48,50,52,54,55,56,57,59,62,63},
     {0,1,4,5,8,11,12,13,16,18,19,20,22,23,24,25,27,28,29,30,31,37,39,42,44,45,46,47,53,54,55,60,63},
     {1,2,6,9,11,14,15,17,19,20,22,27,30,31,33,34,35,36,37,39,40,47,48,49,55,57,59},
     {3,7,11,12,14,17,21,22,23,27,28,30,35,36,41,42,43,44,45,46,47,48,53,54,59,63},
     {3,5,6,9,10,11,13,17,19,21,23,24,26,27,29,30,32,33,37,38,41,42,44,45,46,48,51,52,54,56,59,61,63},
     {0,1,2,3,4,5,7,8,9,11,12,13,15,16,18,19,20,22,23,25,26,27,28,30,32,35,41,42,45,48,49,50,53,55,56,60},
     {1,2,4,5,6,8,10,13,15,17,18,23,24,31,34,35,40,42,45,46,48,50,54,55,56,58,61,63},
     {2,3,5,8,10,11,13,14,15,17,19,20,22,24,25,26,28,30,33,34,35,38,39,40,41,43,45,48,50,51,52,53,56,57},
     {0,2,3,6,7,8,11,14,15,16,18,19,20,21,22,24,27,28,30,31,32,34,35,36,37,43,44,45,46,47,51,55,56,57,59,61,62},
     {2,3,5,6,8,9,10,14,18,23,25,28,30,31,32,34,35,37,38,39,40,41,43,44,46,47,48,50,51,52,53,54,56,58,59,60,61,62},
     {0,1,5,6,11,12,15,18,24,25,27,28,32,36,37,39,40,41,45,46,48,49,51,52,53,54,55,57,58,59,61,62},
     {0,1,2,4,7,10,11,13,17,18,20,21,22,23,24,26,28,29,30,31,32,34,35,37,38,39,41,43,44,46,51,52,53,55,58,59,60,62},
     {3,4,7,10,12,13,15,16,18,20,21,23,25,29,31,35,39,41,46,49,50,51,52,53,58,61,62,63},
     {1,7,8,11,13,17,18,21,26,28,30,31,32,34,36,38,41,43,44,45,46,48,52,53,55,56,58,60,61,62},
     {3,4,5,6,7,8,10,11,13,17,20,24,26,28,29,31,33,34,35,39,40,42,43,45,46,49,51,53,56,57,58,61},
     {1,3,5,6,7,8,10,12,18,19,20,21,22,24,25,26,27,29,30,32,35,38,39,40,41,42,43,46,48,49,50,52,56,58,59,61},
     {1,6,9,17,19,20,22,23,24,25,27,28,29,31,33,36,38,39,40,44,45,48,52,55,56,58,63},
     {0,4,6,8,11,14,16,19,21,24,25,26,28,29,30,31,32,35,36,39,45,46,50,55,57,58,61,63},
     {1,2,5,7,9,10,11,12,18,21,24,26,30,32,33,39,41,42,43,45,46,50,51,53,55,56,58,59,60,63},
     {4,6,7,10,13,17,18,21,22,23,25,26,27,30,31,33,34,36,44,50,51,53,54,56,57,59,61,62,63}
    >>,
    <<
     {1,3,4,8,9,12,13,15,16,18,22,23,24,27,31,32,33,37,38,39,41,42,45,46,47,49,50,51,54,57,58,62,63},
     {0,1,2,3,4,9,10,11,12,13,14,17,18,22,23,24,25,27,28,29,30,32,33,35,36,37,39,40,41,42,44,45,46,47,48,56,57,58,60,61,62},
     {0,1,2,3,6,8,9,10,11,14,15,16,23,24,25,26,27,29,30,33,34,36,37,39,40,41,42,44,46,48,49,53,54,56,57,60,62,63},
     {0,1,5,7,11,15,18,21,24,25,27,28,29,31,35,37,39,41,43,45,46,50,51,53,55,56,57,58,60,63},
     {0,1,2,4,5,6,7,8,12,15,16,18,20,21,23,26,30,39,40,42,43,47,49,55,57,60,62},
     {5,7,8,9,10,11,12,14,15,16,19,25,27,28,30,31,34,35,37,38,40,42,46,47,51,52,54,55,57,58,59,60,61},
     {0,1,5,7,8,11,14,15,17,19,21,23,26,28,30,31,34,35,36,37,40,45,46,48,49,54,56,57,58,59,61,62,63},
     {2,5,9,11,15,16,17,18,19,21,25,26,28,34,35,37,38,40,41,42,44,46,47,48,49,50,53,54,56,57,58,62},
     {1,2,3,4,6,7,10,12,15,17,20,21,23,24,29,30,31,32,34,35,39,41,46,47,48,49,50,53,54,56,57,60,61,62},
     {0,1,3,7,8,10,12,14,15,16,18,19,21,22,25,26,27,28,29,32,33,34,35,36,37,39,41,42,44,45,48,49,50,51,52,62,63},
     {0,2,4,6,9,13,16,17,18,20,21,22,23,25,26,28,29,30,33,34,36,39,41,43,45,47,48,53,54,55,56,60,63},
     {0,2,4,6,7,9,12,13,15,17,18,19,20,21,26,27,28,31,33,34,35,38,41,42,45,46,49,50,51,56,57,59,61,63},
     {0,1,3,5,6,8,12,13,14,16,18,24,29,30,32,36,38,39,41,42,44,49,50,51,52,57,58,60,62},
     {0,9,13,14,15,19,20,22,24,25,26,32,33,34,37,38,39,41,42,43,44,46,47,49,51,55,57,58,59,60,61,62},
     {0,2,3,7,8,9,11,19,20,22,23,24,27,28,30,31,33,34,37,38,39,45,50,52,53,56,57,60,62},
     {0,1,2,7,9,10,11,16,18,19,23,25,26,27,29,32,34,35,36,39,41,44,52,54,55,58,59,60,61,62},
     {0,1,2,7,10,11,12,13,14,16,18,19,22,25,26,28,29,33,34,40,41,42,43,46,47,48,50,52,54,55,57,59,60,62},
     {1,2,3,4,6,7,8,10,11,12,13,15,17,18,19,20,21,26,27,30,31,32,33,35,36,37,41,45,46,48,49,53,57,62},
     {1,2,6,9,12,13,14,21,24,25,26,28,30,32,35,38,39,41,44,45,47,48,49,50,52,55,56,57,58,62},
     {1,2,5,6,9,10,13,15,18,19,20,22,24,29,30,31,33,35,38,40,42,43,44,47,48,50,51,52,55,59,60,63},
     {1,3,4,5,8,9,10,14,15,23,24,25,28,29,31,32,34,35,40,41,42,44,45,47,49,50,51,54,56,61,62,63},
     {0,4,7,8,11,15,16,19,20,21,23,25,26,30,32,33,37,41,44,46,51,54,57,58,59,63},
     {1,3,5,6,8,9,14,16,19,20,23,25,32,34,35,36,37,38,39,41,42,43,45,47,48,54,58,63},
     {0,1,2,3,4,5,7,9,11,12,13,18,20,21,23,25,28,29,30,31,33,36,37,38,39,41,44,48,51,53,54,55,60,61},
     {0,1,2,5,8,9,11,12,13,15,17,19,21,22,23,24,26,28,36,39,41,47,48,51,54,55,56,58,59,60,61},
     {0,2,4,5,12,14,15,17,18,20,22,27,28,29,31,32,33,37,38,42,43,45,47,48,49,51,59,61,62},
     {3,4,12,13,14,16,17,20,24,26,27,28,29,30,34,37,40,41,42,53,57,58,59,63},
     {0,3,5,10,12,16,17,18,20,25,30,31,32,35,39,41,42,43,44,46,47,48,50,55,56,58,59,60,61},
     {0,1,2,3,4,9,10,14,15,16,17,19,22,23,28,29,31,33,35,37,38,39,42,43,44,45,48,53,54,55,56,59,60,61,62},
     {0,1,5,6,10,13,14,15,16,19,20,22,24,26,29,31,32,33,38,39,40,42,43,46,48,49,51,52,53,57,58,60,61,63},
     {0,2,7,8,9,10,12,13,14,17,18,21,23,24,26,27,28,29,30,32,34,35,37,40,44,47,48,49,51,52,53,55,57,60,61,62},
     {0,1,4,9,10,13,15,16,18,19,20,21,22,23,25,27,30,31,32,34,36,37,38,39,40,42,43,49,51,53,54,58},
     {1,2,3,5,11,12,14,17,20,22,23,24,25,26,28,32,34,37,38,39,40,42,48,49,52,54,56,57,59,62},
     {2,3,4,5,7,9,11,15,17,19,20,21,23,27,28,29,33,34,40,42,44,46,47,49,50,55,56,57,58,61,62},
     {0,2,3,7,9,10,12,13,14,15,19,20,24,28,29,31,32,33,38,40,41,42,43,44,45,48,51,54,57,58,59,60,61},
     {0,1,3,4,5,7,10,15,16,17,21,22,25,26,27,30,33,36,37,39,43,46,48,51,52,53,54,55,56,59,61,63},
     {1,3,4,5,7,8,9,12,14,15,21,22,23,26,28,31,32,33,34,36,38,39,40,41,42,43,44,51,52,53,54,57,58,59,60,62},
     {0,1,4,5,6,8,11,12,15,16,17,18,21,24,27,28,29,30,33,34,38,40,41,42,45,46,52,53,55,56,58,59,63},
     {0,2,4,5,6,7,8,9,10,11,12,13,14,17,19,21,22,23,24,25,26,31,33,42,43,44,45,46,59,60,62},
     {0,2,3,4,6,8,12,14,15,16,18,19,21,22,23,26,27,29,30,32,33,34,35,36,38,40,42,43,44,45,48,49,53,56,57,58,59,60,61,62,63},
     {1,2,5,6,7,8,9,10,11,12,15,16,18,20,21,22,23,25,26,27,28,29,31,32,34,35,38,41,46,49,50,53,54,55,58,59,63},
     {0,1,3,4,8,10,11,12,13,15,17,18,19,21,23,26,28,30,32,35,37,40,46,52,57,59,60,62},
     {0,1,3,4,5,8,10,11,14,17,18,19,21,22,23,24,25,28,29,31,33,34,36,38,41,42,45,47,51,53,58,60,61,62},
     {1,5,6,8,9,10,14,15,17,19,20,22,24,26,30,32,33,34,37,43,44,46,47,49,50,51,52,53,54,57,58,59,62},
     {0,3,6,7,8,10,11,12,13,14,15,16,17,19,20,22,30,32,33,35,39,41,43,47,50,56,57,59,60,61},
     {2,6,7,8,10,11,14,16,17,21,22,23,25,26,27,28,32,33,34,35,36,40,41,42,44,49,50,53,55,59,60,61,63},
     {0,6,10,12,13,16,18,19,22,24,28,29,33,34,46,47,48,49,50,54,55,60,62},
     {2,3,4,5,7,8,9,13,16,17,19,20,23,25,26,27,28,33,35,42,44,45,46,48,50,51,53,57,58,59,60,61,63},
     {0,5,6,8,13,14,17,18,19,21,24,27,31,32,33,35,37,41,42,44,45,47,50,51,53,54,56,57,60,61,62,63},
     {2,3,4,5,7,8,9,11,12,14,15,17,18,19,20,24,25,30,31,35,40,41,42,43,47,49,50,51,53,55,60,61,63},
     {1,3,4,5,6,7,9,11,12,13,14,15,16,18,21,22,24,25,26,27,29,35,38,42,44,46,47,51,56,60,61},
     {1,3,4,6,7,8,9,11,12,13,14,15,18,21,22,24,25,26,28,29,35,38,39,40,44,45,48,50,52,56,58,59,60,61,63},
     {1,6,12,13,14,18,20,21,22,23,24,25,27,28,29,30,33,34,35,36,37,38,39,40,42,43,45,47,51,54,55,57,58,62},
     {0,1,8,9,10,13,14,17,18,19,20,21,22,24,27,28,29,31,33,34,36,38,39,41,43,45,48,49,50,51,53,54,55,57,58,60,63},
     {2,3,5,6,7,9,11,13,14,15,17,25,27,28,29,30,31,34,35,42,43,44,45,46,47,50,51,52,55,57,62,63},
     {0,1,4,9,11,12,15,17,18,19,22,25,26,31,33,35,37,40,41,42,46,48,49,50,54,55,59,60,63},
     {0,2,3,6,9,11,12,15,17,20,21,22,27,30,32,33,35,36,37,39,41,42,43,44,45,47,49,56,57,59,60,61,62,63},
     {1,2,3,4,5,10,12,18,19,20,21,23,24,27,28,32,33,34,37,38,39,40,45,48,49,50,53,56,58,60,62,63},
     {0,3,4,7,12,13,15,16,20,21,23,24,28,29,33,34,37,38,39,41,42,43,46,47,49,50,52,54,55,56,57,59,62},
     {1,2,3,4,5,9,10,12,14,18,19,20,21,25,27,28,29,33,37,39,40,41,44,45,47,49,53,54,58,59,60,62},
     {0,1,4,7,8,13,14,15,16,17,18,19,21,22,23,24,26,27,29,32,34,35,36,37,39,43,45,46,48,53,54,56,58,59,62},
     {0,2,5,9,11,12,13,16,17,18,19,20,23,24,25,33,34,35,40,41,44,45,47,54,56,58,60,61,63},
     {0,4,6,7,8,9,12,16,18,19,20,21,23,27,31,34,35,37,39,40,42,43,44,45,47,48,49,50,53,54,61},
     {0,1,3,4,5,6,10,14,16,19,20,21,25,26,30,32,35,36,37,39,41,43,45,46,47,49,50,53,55,56,57,59}
    >>,
    <<
     {1,3,7,10,13,14,16,17,19,21,22,24,27,28,29,30,31,33,34,38,39,41,43,45,46,48,50,52,53,54,55,56,58,59},
     {2,5,6,7,9,10,11,13,14,15,19,21,23,24,26,27,31,32,34,35,39,40,41,42,44,45,46,48,51,54,55,57,59,62},
     {2,5,9,12,13,14,15,16,19,23,25,28,29,31,32,34,37,38,40,41,43,44,46,47,48,49,50,51,53,55,56,60,61,62,63},
     {1,6,9,11,12,14,15,16,17,20,22,29,33,34,36,37,38,39,42,43,45,46,48,49,51,54,56,57,61,63},
     {1,3,8,11,12,13,14,16,17,20,22,25,26,27,28,30,31,33,37,38,39,42,43,44,45,46,47,49,50,52,53,55,62,63},
     {4,5,6,7,8,11,12,13,17,19,21,23,24,26,27,28,29,30,33,35,40,41,42,43,45,48,49,54,57,59,60},
     {0,1,4,7,8,9,10,11,15,17,19,21,22,24,25,26,27,28,30,31,33,38,40,41,44,46,47,48,49,53,56,57},
     {0,1,3,4,5,6,8,9,10,11,12,14,15,16,18,20,21,22,23,25,28,31,32,36,38,41,42,44,45,46,49,51,54,55,59,62},
     {5,6,7,8,10,13,14,17,19,21,27,28,29,30,33,35,37,39,40,41,48,50,51,55,57,59,60,61,62},
     {0,1,2,3,4,5,12,15,17,22,23,28,29,30,32,34,35,36,40,47,51,52,53,56,57,58,60,62},
     {1,2,3,4,8,10,12,13,14,17,20,21,24,25,26,27,29,32,33,35,36,39,41,43,44,46,47,49,51,53,56,57,58,60,61,62,63},
     {0,3,4,6,9,10,16,17,18,21,24,26,27,37,38,42,43,45,46,49,53,55,62},
     {0,1,3,4,5,8,9,11,15,16,19,21,22,23,28,29,30,31,34,35,38,45,46,47,48,51,52,55,58,59,60,62,63},
     {2,4,6,7,8,10,12,13,14,18,19,22,25,27,28,29,30,33,34,35,39,44,46,47,50,52,53,56,58,59,60},
     {2,3,4,6,7,8,9,11,13,17,18,20,21,22,25,28,30,31,32,33,37,38,39,43,44,46,49,51,52,53,55,60},
     {0,1,6,8,9,14,15,18,20,23,25,26,29,30,32,36,38,41,43,44,48,49,53,54,55,56,58,59,60,61,62},
     {0,1,2,4,7,10,11,16,17,18,20,21,22,23,25,28,33,34,39,43,45,47,48,49,50,52,53,55,56,57,60,63},
     {2,3,7,9,11,12,14,16,17,21,24,29,31,33,35,36,40,46,48,49,51,52,53,55,56,57,58,59,61,63},
     {0,8,9,12,14,16,19,20,21,23,24,26,27,32,33,36,38,39,42,44,47,48,49,50,52,54,55,57,58,61},
     {0,1,3,12,14,15,16,20,21,25,26,29,32,34,35,38,39,40,48,49,50,53,55,56,57,58,59,62,63},
     {0,5,6,8,14,17,18,20,28,31,33,35,36,37,38,39,40,42,45,46,47,48,51,52,53,54,55,57,60,61,62,63},
     {1,2,3,4,9,11,13,19,22,23,24,26,27,30,33,34,37,38,41,43,45,46,49,50,51,54,55,56,58,60},
     {2,4,8,9,11,13,14,16,20,21,22,25,26,27,28,29,30,31,33,38,40,44,45,46,48,51,55,56,57,58,59,60,61},
     {4,5,6,8,9,10,12,14,15,17,20,22,25,26,27,28,32,34,35,38,39,40,41,42,43,44,46,47,48,50,51,52,54,55,57,58,59,63},
     {4,6,7,12,15,17,20,21,23,24,25,30,31,32,33,34,35,37,38,40,45,46,49,51,55,57,59,61,62},
     {0,1,3,5,9,13,15,16,17,18,20,21,24,25,27,28,31,33,35,36,38,39,42,46,47,48,49,51,52,55,59,60,63},
     {0,5,7,8,10,11,12,13,14,15,16,18,19,21,22,25,27,30,31,33,38,41,43,45,47,52,54,57,58,59,60,63},
     {1,3,6,7,8,13,15,17,18,22,23,24,27,28,29,32,36,41,43,44,46,47,48,49,52,55,57,58,62,63},
     {0,1,3,6,12,14,16,17,18,22,23,24,26,31,32,35,36,38,42,44,45,46,53,54,56,61,62},
     {0,1,2,3,5,6,9,11,13,14,15,18,20,22,24,25,28,29,30,32,34,35,36,37,41,42,43,44,45,47,48,49,52,55,59,61,62,63},
     {1,2,3,5,6,7,8,11,13,17,18,20,22,24,28,29,30,32,33,35,37,39,40,42,44,46,48,49,50,51,52,58,59,62},
     {0,3,4,5,6,7,8,13,14,15,16,17,20,21,26,27,28,30,31,32,33,34,35,38,40,42,44,47,48,51,53,55,57,58,60,63},
     {4,6,12,13,15,17,20,21,22,24,26,27,28,29,30,31,32,33,34,38,39,41,43,46,47,48,49,50,54,55,56,58,59,61,62},
     {0,2,6,9,10,13,14,16,18,19,21,25,26,27,30,32,33,37,38,40,41,44,45,47,48,52,55,56,60,63},
     {0,1,3,7,8,10,13,15,16,17,19,20,21,22,23,25,26,27,28,31,36,38,39,46,48,49,51,53,54,56,57,58,59},
     {1,4,5,6,8,10,14,15,20,26,27,28,31,32,33,34,38,44,45,47,48,51,54,55,56,58,60,61,62,63},
     {0,2,4,5,9,10,11,12,13,14,17,18,20,21,22,24,26,27,28,29,31,33,34,40,41,42,43,44,46,48,49,50,53,54,56,59,60},
     {1,2,3,5,6,8,10,14,16,18,20,23,25,28,29,30,31,32,33,35,37,40,42,43,44,45,47,49,54,56,57,62,63},
     {0,2,3,7,9,10,12,15,16,20,21,24,26,28,29,33,35,38,39,46,47,48,53,61,63},
     {2,4,6,8,9,10,11,12,13,15,16,18,25,26,28,29,32,36,37,40,43,44,46,47,48,49,50,51,52,53,55,56,57,62},
     {1,4,7,8,12,14,15,16,20,24,27,29,31,34,36,37,39,40,41,44,45,47,51,54,55,58,60},
     {6,7,10,13,14,15,18,20,21,27,29,32,35,37,38,39,40,42,43,46,47,48,49,50,53,54,56,58,59,60,61},
     {0,3,4,5,6,8,9,11,16,17,18,19,20,21,22,26,27,29,32,33,34,37,40,42,43,44,46,48,49,50,51,54,56,58,59,63},
     {1,2,3,4,7,8,9,12,13,14,16,17,18,20,21,24,25,28,33,35,36,39,40,42,47,49,52,59,61},
     {1,3,4,5,8,9,11,12,14,16,17,18,19,21,23,32,34,35,39,40,41,43,44,47,50,52,55,59,61,62},
     {1,3,5,6,7,8,10,12,13,18,20,22,24,25,28,29,30,33,34,37,38,45,47,49,51,52,53,54,60,61,63},
     {1,5,7,9,18,27,28,31,32,35,37,40,41,42,43,45,50,51,54,59,60,61,62},
     {4,11,12,13,14,15,16,17,18,19,23,25,27,30,32,33,35,36,37,38,39,40,42,44,48,49,51,52,54,59},
     {0,2,6,7,9,10,17,22,24,25,27,28,29,32,33,34,37,38,39,40,42,43,44,45,48,54,55,56,59,62},
     {0,3,4,5,7,9,10,11,16,17,19,20,21,22,23,26,28,29,31,33,36,37,40,41,43,44,45,53,54,59,62},
     {0,2,3,9,10,11,12,13,14,15,17,18,20,21,22,23,24,25,28,29,31,32,33,34,35,38,39,40,41,42,43,45,48,49,50,51,58,59,60,62,63},
     {1,5,7,8,10,13,14,16,17,19,20,21,26,28,29,30,36,37,41,42,44,46,47,51,52,53,57,60},
     {0,2,3,6,8,10,12,13,14,19,20,21,22,23,24,25,26,27,29,31,32,33,34,39,40,43,45,47,48,54,55,56,57,59,60,61},
     {0,1,2,4,5,8,9,10,11,13,14,16,18,23,26,27,29,30,31,32,33,36,41,43,44,46,47,48,51,52,53,55,56,57,62},
     {3,4,5,6,7,11,12,16,17,18,19,21,23,24,27,30,31,32,33,36,38,41,42,44,45,48,49,50,51,55,57,59,62,63},
     {3,5,8,10,11,14,15,16,17,29,31,32,34,35,38,40,41,44,45,46,50,51,52,53,54,55,57,58,60,63},
     {5,7,9,11,14,16,17,22,24,27,29,31,33,35,36,37,40,41,46,47,50,51,54,55,56,58,59,62,63},
     {0,2,3,4,5,6,8,10,13,14,15,18,24,25,26,27,29,30,31,33,36,37,39,40,41,42,46,50,53,55,57,60,61},
     {0,3,4,6,11,13,14,15,16,18,20,22,23,26,27,29,30,32,33,38,39,41,43,44,45,46,47,48,53,54,56,58,59,60},
     {0,2,4,5,7,12,13,14,19,21,22,24,25,27,31,33,34,37,39,42,43,44,48,50,51,55,56,59,60,61},
     {1,5,7,8,9,13,14,16,17,19,22,23,24,26,29,31,38,40,41,43,45,50,53,57,58,61},
     {0,3,4,8,9,10,13,15,16,18,19,23,27,29,30,31,33,35,36,38,40,42,43,44,45,46,58,62},
     {0,1,3,7,8,11,12,17,18,19,20,23,24,25,28,30,31,35,37,38,39,43,44,47,48,51,53,54,58,61},
     {1,2,3,6,9,11,13,14,15,16,17,18,22,25,28,32,33,34,35,38,44,45,46,50,54,56,57,58,59}
    >>,
    <<
     {3,5,6,9,11,13,14,15,16,19,20,21,22,25,27,29,32,33,34,37,39,42,44,45,47,48,51,53,54,55,57,59,62,63},
     {0,1,6,7,8,10,13,15,16,17,18,19,20,21,23,25,26,27,30,33,34,35,38,41,42,43,46,47,50,52,54,59,60,63},
     {0,1,2,3,4,5,6,8,12,13,15,16,17,19,20,21,23,24,25,26,27,28,29,31,32,35,39,40,43,45,46,48,56,57,60,62,63},
     {1,2,3,7,8,10,11,15,16,17,18,20,21,23,24,28,31,33,34,36,41,42,46,48,49,52,54,55,56,57,59,61,62,63},
     {0,2,3,4,5,9,13,14,17,21,22,23,24,27,30,33,34,36,38,42,43,44,46,50,51,53,54,60,61,62},
     {0,1,5,10,13,15,16,18,20,22,23,24,25,26,27,28,32,33,40,41,42,44,47,50,51,52,53,54,55,56,57,58,60,61,62},
     {1,2,4,5,6,8,9,12,13,16,18,19,22,28,29,31,32,34,39,40,41,43,45,46,47,51,52,54,55,56,58,59,62},
     {0,5,8,9,10,11,12,13,15,16,21,24,25,28,29,31,34,35,36,38,42,43,46,47,49,51,56,57,58,61,62},
     {3,5,6,7,9,11,12,13,16,17,20,22,24,28,29,30,31,32,34,37,40,42,43,45,46,47,48,52,53,55,56,58,62},
     {1,3,4,6,7,8,12,13,14,15,17,18,19,20,31,33,34,35,36,38,40,41,43,44,45,50,51,52,53,57,59,63},
     {0,2,3,8,10,11,12,14,16,19,21,22,25,26,27,28,29,30,32,35,36,40,41,42,44,45,46,47,52,60,61,62},
     {3,4,6,9,10,12,14,15,16,17,18,20,23,26,28,33,34,38,41,42,43,45,46,47,51,52,56,59,60,63},
     {2,3,4,5,6,7,12,14,18,20,21,25,27,34,35,36,37,38,39,40,41,42,44,45,48,52,53,55,56,57,61,62,63},
     {1,2,3,4,5,9,10,11,13,14,16,19,20,23,25,26,27,29,30,32,34,35,36,38,41,43,45,46,49,51,58,59,60,61,63},
     {0,1,2,6,7,9,11,13,15,16,17,23,25,28,30,34,35,36,37,41,43,44,45,46,47,50,51,55,57,59,60,63},
     {1,2,3,5,6,10,11,12,19,20,30,32,36,37,38,39,42,44,48,49,50,51,52,55,57,58},
     {0,2,3,5,6,7,9,12,13,16,21,22,24,25,26,28,33,34,35,36,38,41,43,46,47,49,51,52,55,57,59,60,61},
     {0,6,9,10,11,14,15,16,17,18,19,20,21,25,26,28,29,30,31,33,34,36,38,40,44,46,47,49,50,51,52,55,58,59,61,63},
     {0,1,2,4,5,9,13,14,16,25,26,28,30,31,32,33,35,37,38,40,42,44,46,47,49,51,54,58,59,60,62,63},
     {0,2,3,5,7,8,9,10,11,12,13,22,24,25,28,31,32,33,34,35,36,37,44,45,47,48,50,51,54,57,58,60,63},
     {2,4,6,7,9,11,12,13,15,17,18,21,22,24,25,28,29,30,31,32,33,34,35,36,37,38,39,41,44,47,48,49,50,51,54,56,58},
     {0,3,6,9,11,12,13,14,15,16,17,21,22,23,24,25,26,27,28,29,30,31,32,36,41,42,44,46,48,49,50,54,55,56,57,62,63},
     {2,4,6,8,10,13,15,17,19,20,26,27,29,31,32,33,34,37,39,40,43,45,47,51,54,57,60,62,63},
     {1,2,3,5,7,10,11,13,15,17,18,19,20,21,22,23,26,30,32,33,35,37,42,43,45,46,47,50,55,56,57,60,63},
     {0,1,2,3,4,5,6,8,9,10,11,12,15,18,19,22,25,27,34,35,39,42,43,44,48,49,51,52,54,56,57,62,63},
     {2,3,7,8,10,12,14,15,17,19,20,23,24,30,31,32,33,35,36,37,39,42,43,46,48,51,52,54,55,58,59,61},
     {0,1,3,5,6,7,8,10,11,12,13,15,17,20,21,22,27,28,29,30,33,35,37,38,44,46,47,49,51,52,54,55,58,63},
     {0,1,2,3,4,5,6,8,9,12,14,16,19,22,23,25,26,29,31,32,37,41,44,45,46,47,48,50,52,53,56,60,61,62},
     {8,9,10,11,12,13,15,16,17,23,25,27,29,30,31,32,35,36,37,38,39,42,46,48,50,52,53,56,57,58,62},
     {0,1,3,7,9,12,17,18,20,21,22,25,26,27,29,34,35,36,39,40,44,46,47,48,49,50,52,53,56,57,58,59,60,61,62,63},
     {7,8,11,13,19,20,22,23,24,26,28,31,33,39,43,45,49,50,52,55,56,57,58,59,61,62},
     {2,6,14,16,23,25,29,31,34,35,36,38,40,41,43,44,46,49,52,53,54,60,62,63},
     {1,2,3,4,5,6,7,8,10,11,12,13,15,16,21,22,23,24,26,27,28,29,30,33,40,50,52,59,60,61,62,63},
     {0,2,3,7,8,11,13,15,16,17,19,20,22,24,25,26,28,34,36,37,38,39,40,43,44,47,49,52,54,59,60,61,62},
     {0,1,4,6,7,8,11,12,13,14,15,16,17,20,24,27,28,30,33,34,35,36,37,47,48,51,55,59,61,62},
     {1,2,3,4,5,6,7,9,12,13,15,16,17,20,22,24,26,28,30,32,34,35,36,37,39,40,41,42,43,44,46,47,52,53,57,60,62},
     {2,4,5,7,9,10,11,12,14,15,16,18,19,23,24,25,27,29,31,38,39,41,42,43,48,49,50,54,55,57,59,60},
     {4,5,6,8,10,13,14,18,20,23,24,25,27,28,30,31,33,34,36,38,40,44,46,47,48,49,51,53,56,59,61},
     {1,3,4,6,8,9,17,18,19,21,22,26,28,30,33,34,35,36,39,41,44,47,48,53,54,56,59,61,62},
     {0,1,3,8,11,12,15,18,20,23,24,28,29,31,32,33,34,36,38,39,41,42,43,48,49,50,52,54,55,57,58,59,60,61,62},
     {0,1,2,3,4,5,10,13,15,19,22,23,24,27,30,35,36,40,41,44,48,49,50,51,52,55,56,59,61,63},
     {1,2,3,4,5,10,12,13,19,20,21,22,23,24,28,29,30,31,32,33,37,38,39,40,43,50,55,57,58,61,62},
     {2,3,4,8,10,11,12,14,15,16,18,22,28,30,31,32,34,35,36,37,38,39,42,43,44,52,53,55,57,62,63},
     {4,5,7,8,13,16,17,20,22,23,26,27,31,32,33,34,35,36,37,39,40,41,43,44,45,46,47,50,53,54,56,59},
     {0,4,7,11,12,13,14,16,17,18,19,21,22,26,28,29,30,32,34,37,41,42,44,48,49,51,55,57,58,60},
     {1,6,9,12,13,18,23,28,30,33,41,42,44,45,48,50,51,52,55,62},
     {0,5,9,12,17,22,23,25,28,30,33,36,37,39,40,43,48,50,51,53,55,56,58,59,60},
     {0,5,7,9,10,17,18,19,20,22,27,28,29,30,31,33,35,36,37,38,40,41,44,45,47,48,50,54,55,56,58,62,63},
     {0,1,3,4,5,10,19,20,21,22,24,25,26,29,30,35,36,37,39,40,41,42,46,47,49,51,53,54,56,58,59,60,62,63},
     {3,4,5,6,10,12,15,18,19,20,21,23,24,25,31,32,34,35,38,39,40,42,43,45,46,49,50,51,53,56,57,60,62,63},
     {3,7,8,13,14,16,18,20,21,22,23,26,27,28,29,30,31,32,33,35,37,39,40,41,42,43,45,46,48,49,51,54},
     {1,3,6,9,10,11,13,14,18,19,20,22,27,29,31,32,33,35,41,42,43,44,46,47,49,50,51,55,57,58,59,60,62,63},
     {0,2,3,5,6,7,8,11,13,14,16,17,18,21,22,23,25,27,31,32,34,35,36,37,38,39,42,44,50,54,57,58,60,61,62},
     {1,4,6,7,8,9,10,12,15,17,19,22,23,24,27,29,30,33,34,37,39,40,44,46,53,54,55,56,58,59},
     {1,4,6,7,11,13,14,16,18,28,29,32,33,35,36,37,39,40,44,45,46,51,52,53,55,58,63},
     {0,2,3,4,5,6,9,12,15,16,18,19,20,23,26,27,28,30,32,34,35,37,38,39,41,42,43,45,46,47,50,53,54,56,57,58,59,60,63},
     {0,1,3,4,5,9,14,17,18,21,23,24,30,31,34,37,38,41,42,43,44,45,48,50,51,52,55,56,57,58,59,60,61,62},
     {1,4,7,8,11,14,15,17,19,20,29,31,32,35,39,43,44,47,48,51,53,56,60,61,62},
     {4,5,6,8,10,11,12,13,15,17,18,19,23,25,30,31,34,35,36,37,38,39,40,42,43,45,46,49,50,52,53,56,58,59},
     {2,4,7,10,13,14,18,19,20,26,28,29,35,36,37,42,43,46,47,48,50,51,52,54,58,62},
     {2,4,7,11,13,15,16,19,20,23,26,27,31,33,34,36,37,40,42,44,49,51,55,56,61},
     {1,2,4,6,9,10,12,13,14,15,16,17,19,20,21,22,24,26,27,29,30,31,32,33,34,35,36,37,40,41,42,46,50,51,52,53,55,56,59,62},
     {1,2,6,13,14,19,21,28,29,30,32,37,38,39,40,43,45,48,49,50,51,52,53,54,56,61,62,63},
     {2,4,7,8,9,15,22,23,25,28,29,31,32,34,35,39,41,44,49,50,52,58,59,60,61,62}
    >>
   >>
  >>

black_to_move ==
  {1,2,4,5,7,8,9,10,14,15,16,18,20,24,25,26,27,28,36,38,39,42,43,44,45,46,47,48,49,53,54,56,57,58}

\* castling[i + 1] for the keys K, Q, k, q in this order
castling ==
  <<
   {2,3,6,9,10,13,21,24,27,28,29,30,31,33,38,39,40,41,45,48,51,54,56,61,63},
   {0,1,2,4,5,6,8,9,16,17,18,19,20,22,23,24,25,27,28,31,34,36,37,40,41,44,46,47,48,49,50,51,52,55,58,59,62,63},
   {2,3,4,5,8,11,12,15,17,22,24,26,27,28,29,33,35,38,39,40,41,44,46,50,52,53,55,56,58,60,61,63},
   {0,2,4,5,7,11,12,13,14,16,17,19,23,27,29,35,36,37,41,44,46,48,50,51,55,56,57,58,59,62}
  >>

\* ep_file[file + 1]
ep_file ==
  <<
   {1,2,3,4,8,11,14,15,16,17,24,26,27,31,36,37,38,40,41,43,45,55,56,57},
   {1,2,4,5,8,11,12,14,21,22,24,26,27,31,32,35,36,37,38,39,40,41,44,49,52,53,54,59,61,62},
   {0,1,2,3,4,5,6,7,9,10,11,15,18,19,20,22,23,24,25,26,28,33,37,38,40,41,43,44,45,46,47,48,50,55,56,59,60,61},
   {0,3,4,6,12,15,18,25,26,27,28,29,30,31,33,35,36,38,39,42,43,44,46,49,50,53,54,56,57,58,60,62,63},
   {0,1,2,3,6,7,8,10,14,15,16,18,20,21,23,24,27,29,30,31,32,34,35,36,37,39,40,43,46,47,48,49,51,56,58,59,60},
   {0,2,3,5,6,7,9,12,13,14,16,21,25,26,28,29,30,33,34,36,37,39,41,44,47,49,52,53,54,57,60,61,62,63},
   {0,1,5,6,7,9,14,17,20,25,26,27,28,32,33,36,38,40,42,43,46,52,54,55,56,58,61,63},
   {0,3,4,6,7,8,10,12,14,16,17,18,24,26,28,30,31,33,34,35,38,39,41,42,45,47,49,51,53,54,56,57,58,61}
  >>

CastlingKeys == <<"K", "Q", "k", "q">>

\* the table entries hash_board XORs together for a board, each named by
\* where it comes from (so that equal entries still count twice)
HashKeys(b) ==
    {<<"piece", s>> : s \in {x \in 0..63 : b.squares[x] # NoPiece}}
    \cup (IF b.turn = BLACK THEN {<<"black_to_move", 0>>} ELSE {})
    \cup {<<"castling", i>> : i \in {j \in 1..4 : b.castling_rights[CastlingKeys[j]]}}
    \cup (IF b.ep_square # None THEN {<<"ep_file", b.ep_square % 8>>} ELSE {})

KeyValue(b, k) ==
    IF k[1] = "piece"
    THEN piece_table[b.squares[k[2]][1] + 1][b.squares[k[2]][2] + 1][k[2] + 1]
    ELSE IF k[1] = "black_to_move" THEN black_to_move
    ELSE IF k[1] = "castling" THEN castling[k[2]]
    ELSE ep_file[k[2] + 1]

\* hash_board with halfmove_clock hashed in as well
hash_board_with_clock(b) ==
    LET keys == HashKeys(b) \cup {<<"halfmove_clock", b.halfmove_clock % 8>>}
        Value(k) == IF k[1] = "halfmove_clock" THEN ep_file[k[2] + 1]
                    ELSE KeyValue(b, k)
    IN  {i \in 0..63 : Cardinality({k \in keys : i \in Value(k)}) % 2 = 1}

\* h ^= entry, for every entry: bit i of the result is set iff an odd number
\* of the entries have it set
hash_board(b) ==
    LET keys == HashKeys(b)
    IN  {i \in 0..63 : Cardinality({k \in keys : i \in KeyValue(b, k)}) % 2 = 1}

\* ------------------------------------------------------------------------
\* engine/game.py
\* ------------------------------------------------------------------------
ONGOING == "ongoing"
WHITE_WINS == "white"
BLACK_WINS == "black"
DRAW == "draw"

STALEMATE == "stalemate"
FIFTY_MOVE == "fifty_move"
THREEFOLD == "threefold"
INSUFFICIENT == "insufficient_material"

\* Python's None for Optional[str] (draw_reason)
NoReason == "None"

\* Python's None for Optional[list] (_cached_legal); a present list l is <<l>>
NoList == <<>>

\* Python's None for Optional[Move]
NoMove == Move(None, None, None, FALSE, FALSE)

VARIABLES
    board,              \* GameState.board: the Board's fields, _history = undo stack
    _position_counts,   \* GameState._position_counts: hash -> occurrences
    _move_history,      \* GameState._move_history: the committed moves
    _cached_legal,      \* GameState._cached_legal
    result,             \* GameState.result
    draw_reason,        \* GameState.draw_reason
    resignation,        \* GameState.resignation
    nodes_searched,     \* MinimaxSearcher.nodes_searched
    last,               \* the last call made on the game and what it returned
    searches,           \* per connection, the best_move call its worker runs
    evaluator           \* MinimaxSearcher.evaluator: the evaluator's name

vars == <<board, _position_counts, _move_history, _cached_legal, result,
          draw_reason, resignation, nodes_searched, last, searches, evaluator>>

\* the GameState object as one value
Game ==
    [board |-> board, _position_counts |-> _position_counts,
     _move_history |-> _move_history, _cached_legal |-> _cached_legal,
     result |-> result, draw_reason |-> draw_reason, resignation |-> resignation]

\* dict.get(h, 0)
CountOf(counts, h) == IF h \in DOMAIN counts THEN counts[h] ELSE 0

\* _record_position storing 1 in place of the incremented count
_record_position_forgets(g) ==
    LET Count(h) ==
            [g EXCEPT !._position_counts =
                [k \in (DOMAIN g._position_counts) \cup {h} |->
                    IF k = h THEN 1 ELSE g._position_counts[k]]]
    IN  Count(hash_board(g.board))

_record_position(g) ==
    LET Count(h) ==
            [g EXCEPT !._position_counts =
                [k \in (DOMAIN g._position_counts) \cup {h} |->
                    IF k = h THEN CountOf(g._position_counts, h) + 1
                    ELSE g._position_counts[k]]]
    IN  Count(hash_board(g.board))

\* the legal_moves property: the list it returns (moves), the game as the
\* read leaves it (g), and whether generate_legal_moves raised
legal_moves(g) ==
    IF g._cached_legal # NoList
    THEN [moves |-> g._cached_legal[1], g |-> g, raised |-> FALSE]
    ELSE LET Generated(r) ==
                 IF r.raised
                 THEN [moves |-> <<>>, g |-> [g EXCEPT !.board = r.board],
                       raised |-> TRUE]
                 ELSE [moves |-> r.moves,
                       g |-> [g EXCEPT !.board = r.board,
                                       !._cached_legal = <<r.moves>>],
                       raised |-> FALSE]
         IN  Generated(generate_legal_moves(g.board))

\* the occupied squares in increasing order, as the list "pieces" holds them
OccupiedSquares(b) == {s \in 0..63 : b.squares[s] # NoPiece}

\* _is_insufficient_material without the test that the two bishops have
\* different owners
_is_insufficient_material_any_owner(g) ==
    LET Bishops(occ) == {s \in occ : g.board.squares[s][2] = BISHOP}
        SameSquares(bishops) ==
            /\ Cardinality(bishops) = 2
            /\ \E s1, s2 \in bishops :
                    /\ s1 < s2
                    /\ ((s1 \div 8) + (s1 % 8)) % 2 = ((s2 \div 8) + (s2 % 8)) % 2
        Test(occ) ==
            IF Cardinality(occ) = 2 THEN TRUE
            ELSE IF Cardinality(occ) = 3 /\
                    (\E s \in occ : g.board.squares[s][2] \in {BISHOP, KNIGHT})
                 THEN TRUE
            ELSE IF Cardinality(occ) = 4 THEN SameSquares(Bishops(occ))
            ELSE FALSE
    IN  Test(OccupiedSquares(g.board))

_is_insufficient_material(g) ==
    LET Bishops(occ) == {s \in occ : g.board.squares[s][2] = BISHOP}
        OppositeBishops(bishops) ==
            /\ Cardinality(bishops) = 2
            /\ \E s1, s2 \in bishops :
                    /\ s1 < s2
                    /\ g.board.squares[s1][1] # g.board.squares[s2][1]
                    /\ ((s1 \div 8) + (s1 % 8)) % 2 = ((s2 \div 8) + (s2 % 8)) % 2
        Test(occ) ==
            IF Cardinality(occ) = 2 THEN TRUE
            ELSE IF Cardinality(occ) = 3 /\
                    (\E s \in occ : g.board.squares[s][2] \in {BISHOP, KNIGHT})
                 THEN TRUE
            ELSE IF Cardinality(occ) = 4 THEN OppositeBishops(Bishops(occ))
            ELSE FALSE
    IN  Test(OccupiedSquares(g.board))

\* _update_result with halfmove_clock > 100 as its fifty-move test
_update_result_late_fifty(g) ==
    LET Decide(g1, moves) ==
            IF moves = <<>>
            THEN IF is_in_check(g1.board, g1.board.turn)
                 THEN [g1 EXCEPT !.result =
                          IF g1.board.turn = WHITE THEN BLACK_WINS ELSE WHITE_WINS]
                 ELSE [g1 EXCEPT !.result = DRAW, !.draw_reason = STALEMATE]
            ELSE IF g1.board.halfmove_clock > 100
            THEN [g1 EXCEPT !.result = DRAW, !.draw_reason = FIFTY_MOVE]
            ELSE IF CountOf(g1._position_counts, hash_board(g1.board)) >= 3
            THEN [g1 EXCEPT !.result = DRAW, !.draw_reason = THREEFOLD]
            ELSE IF _is_insufficient_material(g1)
            THEN [g1 EXCEPT !.result = DRAW, !.draw_reason = INSUFFICIENT]
            ELSE g1
        Listed(lm) ==
            IF lm.raised THEN [g |-> lm.g, raised |-> TRUE]
            ELSE [g |-> Decide(lm.g, lm.moves), raised |-> FALSE]
    IN  Listed(legal_moves(g))

\* _update_result calling every position without legal moves a stalemate
_update_result_stalemate_only(g) ==
    LET Decide(g1, moves) ==
            IF moves = <<>>
            THEN [g1 EXCEPT !.result = DRAW, !.draw_reason = STALEMATE]
            ELSE IF g1.board.halfmove_clock >= 100
            THEN [g1 EXCEPT !.result = DRAW, !.draw_reason = FIFTY_MOVE]
            ELSE IF CountOf(g1._position_counts, hash_board(g1.board)) >= 3
            THEN [g1 EXCEPT !.result = DRAW, !.draw_reason = THREEFOLD]
            ELSE IF _is_insufficient_material(g1)
            THEN [g1 EXCEPT !.result = DRAW, !.draw_reason = INSUFFICIENT]
            ELSE g1
        Listed(lm) ==
            IF lm.raised THEN [g |-> lm.g, raised |-> TRUE]
            ELSE [g |-> Decide(lm.g, lm.moves), raised |-> FALSE]
    IN  Listed(legal_moves(g))

\* _update_result awarding a checkmate to the side left to move
_update_result_mated_side_wins(g) ==
    LET Decide(g1, moves) ==
            IF moves = <<>>
            THEN IF is_in_check(g1.board, g1.board.turn)
                 THEN [g1 EXCEPT !.result =
                          IF g1.board.turn = WHITE THEN WHITE_WINS ELSE BLACK_WINS]
                 ELSE [g1 EXCEPT !.result = DRAW, !.draw_reason = STALEMATE]
            ELSE IF g1.board.halfmove_clock >= 100
            THEN [g1 EXCEPT !.result = DRAW, !.draw_reason = FIFTY_MOVE]
            ELSE IF CountOf(g1._position_counts, hash_board(g1.board)) >= 3
            THEN [g1 EXCEPT !.result = DRAW, !.draw_reason = THREEFOLD]
            ELSE IF _is_insufficient_material(g1)
            THEN [g1 EXCEPT !.result = DRAW, !.draw_reason = INSUFFICIENT]
            ELSE g1
        Listed(lm) ==
            IF lm.raised THEN [g |-> lm.g, raised |-> TRUE]
            ELSE [g |-> Decide(lm.g, lm.moves), raised |-> FALSE]
    IN  Listed(legal_moves(g))

\* _update_result testing the fifty-move clock before the legal moves
_update_result_fifty_first(g) ==
    LET Decide(g1, moves) ==
            IF g1.board.halfmove_clock >= 100
            THEN [g1 EXCEPT !.result = DRAW, !.draw_reason = FIFTY_MOVE]
            ELSE IF moves = <<>>
            THEN IF is_in_check(g1.board, g1.board.turn)
                 THEN [g1 EXCEPT !.result =
                          IF g1.board.turn = WHITE THEN BLACK_WINS ELSE WHITE_WINS]
                 ELSE [g1 EXCEPT !.result = DRAW, !.draw_reason = STALEMATE]
            ELSE IF CountOf(g1._position_counts, hash_board(g1.board)) >= 3
            THEN [g1 EXCEPT !.result = DRAW, !.draw_reason = THREEFOLD]
            ELSE IF _is_insufficient_material(g1)
            THEN [g1 EXCEPT !.result = DRAW, !.draw_reason = INSUFFICIENT]
            ELSE g1
        Listed(lm) ==
            IF lm.raised THEN [g |-> lm.g, raised |-> TRUE]
            ELSE [g |-> Decide(lm.g, lm.moves), raised |-> FALSE]
    IN  Listed(legal_moves(g))

\* _update_result declaring a stalemate without its draw reason
_update_result_stalemate_unexplained(g) ==
    LET Decide(g1, moves) ==
            IF moves = <<>>
            THEN IF is_in_check(g1.board, g1.board.turn)
                 THEN [g1 EXCEPT !.result =
                          IF g1.board.turn = WHITE THEN BLACK_WINS ELSE WHITE_WINS]
                 ELSE [g1 EXCEPT !.result = DRAW]
            ELSE IF g1.board.halfmove_clock >= 100
            THEN [g1 EXCEPT !.result = DRAW, !.draw_reason = FIFTY_MOVE]
            ELSE IF CountOf(g1._position_counts, hash_board(g1.board)) >= 3
            THEN [g1 EXCEPT !.result = DRAW, !.draw_reason = THREEFOLD]
            ELSE IF _is_insufficient_material(g1)
            THEN [g1 EXCEPT !.result = DRAW, !.draw_reason = INSUFFICIENT]
            ELSE g1
        Listed(lm) ==
            IF lm.raised THEN [g |-> lm.g, raised |-> TRUE]
            ELSE [g |-> Decide(lm.g, lm.moves), raised |-> FALSE]
    IN  Listed(legal_moves(g))

\* _update_result: the game it leaves (g) and whether it raised
_update_result(g) ==
    LET Decide(g1, moves) ==
            IF moves = <<>>
            THEN IF is_in_check(g1.board, g1.board.turn)
                 THEN [g1 EXCEPT !.result =
                          IF g1.board.turn = WHITE THEN BLACK_WINS ELSE WHITE_WINS]
                 ELSE [g1 EXCEPT !.result = DRAW, !.draw_reason = STALEMATE]
            ELSE IF g1.board.halfmove_clock >= 100
            THEN [g1 EXCEPT !.result = DRAW, !.draw_reason = FIFTY_MOVE]
            ELSE IF CountOf(g1._position_counts, hash_board(g1.board)) >= 3
            THEN [g1 EXCEPT !.result = DRAW, !.draw_reason = THREEFOLD]
            ELSE IF _is_insufficient_material(g1)
            THEN [g1 EXCEPT !.result = DRAW, !.draw_reason = INSUFFICIENT]
            ELSE g1
        Listed(lm) ==
            IF lm.raised THEN [g |-> lm.g, raised |-> TRUE]
            ELSE [g |-> Decide(lm.g, lm.moves), raised |-> FALSE]
    IN  Listed(legal_moves(g))

\* GameState.make_move without its test of the result
GameState_make_move_unguarded(g, move) ==
    LET Updated(ur) == [g |-> ur.g, ret |-> ~ur.raised, raised |-> ur.raised]
        Commit(g0) ==
            Updated(_update_result(_record_position(
                [g0 EXCEPT !.board = make_move(g0.board, move),
                           !._move_history = Append(g0._move_history, move),
                           !._cached_legal = NoList])))
        Listed(lm) ==
            IF lm.raised THEN [g |-> lm.g, ret |-> FALSE, raised |-> TRUE]
            ELSE IF ~MoveIn(move, lm.moves)
            THEN [g |-> lm.g, ret |-> FALSE, raised |-> FALSE]
            ELSE IF make_move_raises(lm.g.board, move)
            THEN [g |-> lm.g, ret |-> FALSE, raised |-> TRUE]
            ELSE Commit(lm.g)
    IN  Listed(legal_moves(g))

\* make_move without the reset of the cached legal moves
GameState_make_move_keeps_cache(g, move) ==
    IF g.result # ONGOING THEN [g |-> g, ret |-> FALSE, raised |-> FALSE]
    ELSE
    LET Updated(ur) == [g |-> ur.g, ret |-> ~ur.raised, raised |-> ur.raised]
        Commit(g0) ==
            Updated(_update_result(_record_position(
                [g0 EXCEPT !.board = make_move(g0.board, move),
                           !._move_history = Append(g0._move_history, move)])))
        Listed(lm) ==
            IF lm.raised THEN [g |-> lm.g, ret |-> FALSE, raised |-> TRUE]
            ELSE IF ~MoveIn(move, lm.moves)
            THEN [g |-> lm.g, ret |-> FALSE, raised |-> FALSE]
            ELSE IF make_move_raises(lm.g.board, move)
            THEN [g |-> lm.g, ret |-> FALSE, raised |-> TRUE]
            ELSE Commit(lm.g)
    IN  Listed(legal_moves(g))

\* make_move without the append to the move history
GameState_make_move_unrecorded(g, move) ==
    IF g.result # ONGOING THEN [g |-> g, ret |-> FALSE, raised |-> FALSE]
    ELSE
    LET Updated(ur) == [g |-> ur.g, ret |-> ~ur.raised, raised |-> ur.raised]
        Commit(g0) ==
            Updated(_update_result(_record_position(
                [g0 EXCEPT !.board = make_move(g0.board, move),
                           !._cached_legal = NoList])))
        Listed(lm) ==
            IF lm.raised THEN [g |-> lm.g, ret |-> FALSE, raised |-> TRUE]
            ELSE IF ~MoveIn(move, lm.moves)
            THEN [g |-> lm.g, ret |-> FALSE, raised |-> FALSE]
            ELSE IF make_move_raises(lm.g.board, move)
            THEN [g |-> lm.g, ret |-> FALSE, raised |-> TRUE]
            ELSE Commit(lm.g)
    IN  Listed(legal_moves(g))

\* GameState.make_move: the game it leaves (g), the value it returns (ret)
\* and whether it raised instead of returning
GameState_make_move(g, move) ==
    IF g.result # ONGOING THEN [g |-> g, ret |-> FALSE, raised |-> FALSE]
    ELSE
    LET Updated(ur) == [g |-> ur.g, ret |-> ~ur.raised, raised |-> ur.raised]
        Commit(g0) ==
            Updated(_update_result(_record_position(
                [g0 EXCEPT !.board = make_move(g0.board, move),
                           !._move_history = Append(g0._move_history, move),
                           !._cached_legal = NoList])))
        Listed(lm) ==
            IF lm.raised THEN [g |-> lm.g, ret |-> FALSE, raised |-> TRUE]
            ELSE IF ~MoveIn(move, lm.moves)
            THEN [g |-> lm.g, ret |-> FALSE, raised |-> FALSE]
            ELSE IF make_move_raises(lm.g.board, move)
            THEN [g |-> lm.g, ret |-> FALSE, raised |-> TRUE]
            ELSE Commit(lm.g)
    IN  Listed(legal_moves(g))

\* resign without its test of the result
resign_unguarded(g, color) ==
    [g EXCEPT !.resignation = color,
              !.result = IF color = WHITE THEN BLACK_WINS ELSE WHITE_WINS]

\* resign giving the win to the side that resigns
resign_to_resigner(g, color) ==
    IF g.result # ONGOING THEN g
    ELSE [g EXCEPT !.resignation = color,
                   !.result = IF color = WHITE THEN WHITE_WINS ELSE BLACK_WINS]

resign(g, color) ==
    IF g.result # ONGOING THEN g
    ELSE [g EXCEPT !.resignation = color,
                   !.result = IF color = WHITE THEN BLACK_WINS ELSE WHITE_WINS]

\* ------------------------------------------------------------------------
\* api/session.py
\* ------------------------------------------------------------------------
\* GameSession.make_move: the game it leaves (g), the pair it returns (ok,
\* message) and whether it raised instead of returning. promotion is the
\* text received, "" standing for None and for the empty string
GameSession_make_move(g, from_sq, to_sq, promotion) ==
    LET upper(text) == CASE text = "queen" -> "QUEEN" [] text = "rook" -> "ROOK"
                         [] text = "bishop" -> "BISHOP" [] text = "knight" -> "KNIGHT"
                         [] OTHER -> text
        promo_map(text) == CASE text = "QUEEN" -> QUEEN [] text = "ROOK" -> ROOK
                             [] text = "BISHOP" -> BISHOP [] text = "KNIGHT" -> KNIGHT
                             [] OTHER -> None
        promo_pt == IF promotion # "" THEN promo_map(upper(promotion)) ELSE None
        Made(r) == [g |-> r.g, ok |-> r.ret, message |-> "", raised |-> r.raised]
        Found(g1, moves, hits) ==
            IF hits = {}
            THEN [g |-> g1, ok |-> FALSE, message |-> "Illegal move", raised |-> FALSE]
            ELSE Made(GameState_make_move(
                     g1, moves[CHOOSE i \in hits : \A j \in hits : i <= j]))
        Listed(lm) ==
            IF lm.raised
            THEN [g |-> lm.g, ok |-> FALSE, message |-> "", raised |-> TRUE]
            ELSE Found(lm.g, lm.moves,
                       {i \in 1..Len(lm.moves) :
                           /\ lm.moves[i].from_sq = from_sq
                           /\ lm.moves[i].to_sq = to_sq
                           /\ lm.moves[i].promotion = promo_pt})
    IN  Listed(legal_moves(g))

\* ------------------------------------------------------------------------
\* evaluators/base.py, evaluators/material.py
\* ------------------------------------------------------------------------
\* STANDARD_VALUES[piece_type + 1]
STANDARD_VALUES == <<100, 320, 330, 500, 900, 20000>>

piece_value(piece_type) == STANDARD_VALUES[piece_type + 1]

RECURSIVE MaterialRange(_, _, _)
\* the loop of SimpleMaterialEvaluator.evaluate over the squares lo..hi
MaterialRange(b, lo, hi) ==
    IF lo = hi
    THEN IF b.squares[lo] = NoPiece THEN 0
         ELSE IF b.squares[lo][1] = WHITE THEN piece_value(b.squares[lo][2])
         ELSE -piece_value(b.squares[lo][2])
    ELSE LET mid == (lo + hi) \div 2
         IN  MaterialRange(b, lo, mid) + MaterialRange(b, mid + 1, hi)

\* SimpleMaterialEvaluator.evaluate(game_state): reads game_state.board only
evaluate(b) == MaterialRange(b, 0, 63)

\* ------------------------------------------------------------------------
\* search/minimax.py
\* ------------------------------------------------------------------------
_INF == 100000000

\* _PIECE_SORT_VALUE[piece_type + 1]
_PIECE_SORT_VALUE == <<1, 3, 3, 5, 9, 100>>

Max(x, y) == IF x >= y THEN x ELSE y

Min(x, y) == IF x <= y THEN x ELSE y

\* the sort key _score of _order_moves
_score(b, move) ==
    LET target == b.squares[move.to_sq]
        attacker == b.squares[move.from_sq]
        victim_value == _PIECE_SORT_VALUE[target[2] + 1]
        attacker_value == IF attacker # NoPiece
                          THEN _PIECE_SORT_VALUE[attacker[2] + 1] ELSE 0
    IN  IF target # NoPiece THEN -(victim_value * 10 - attacker_value) ELSE 0

\* moves.sort(key=_score): ascending by key, equal keys keep their order
_order_moves(b, moves) ==
    LET n == Len(moves)
        Sorted(key) ==
            [p \in 1..n |->
                moves[CHOOSE i \in 1..n :
                        Cardinality({j \in 1..n : key[j] < key[i]})
                        + Cardinality({j \in 1..(i - 1) : key[j] = key[i]}) + 1 = p]]
    IN  Sorted([i \in 1..n |-> _score(b, moves[i])])

RECURSIVE _search(_, _, _, _, _), SearchLoop(_, _, _, _, _, _)

\* the loop body of _search breaking as soon as the window is narrower
\* than 1000
SearchStep_eager_cutoff(st, depth, maximizing, move) ==
    IF st.stop \/ st.raised THEN st
    ELSE LET Window(r, value, alpha, beta) ==
                 [value |-> value, alpha |-> alpha, beta |-> beta,
                  board |-> undo_move(r.board), nodes |-> st.nodes + r.nodes,
                  raised |-> FALSE, stop |-> beta <= alpha + 1000]
             Valued(r, value) ==
                 Window(r, value,
                        IF maximizing THEN Max(st.alpha, value) ELSE st.alpha,
                        IF maximizing THEN st.beta ELSE Min(st.beta, value))
             Searched(r) ==
                 IF r.raised
                 THEN [st EXCEPT !.board = r.board, !.nodes = st.nodes + r.nodes,
                                 !.raised = TRUE]
                 ELSE Valued(r, IF maximizing THEN Max(st.value, r.score)
                                ELSE Min(st.value, r.score))
         IN  Searched(_search(make_move(st.board, move), depth - 1, st.alpha,
                              st.beta, ~maximizing))

\* one iteration of a loop of _search, from the loop state st = [value,
\* alpha, beta, board, nodes, raised, stop]: make, recurse, undo, update the
\* window, break on beta <= alpha.  A raise in the recursion leaves the loop
\* at once, the move not undone.
SearchStep(st, depth, maximizing, move) ==
    IF st.stop \/ st.raised THEN st
    ELSE LET Window(r, value, alpha, beta) ==
                 [value |-> value, alpha |-> alpha, beta |-> beta,
                  board |-> undo_move(r.board), nodes |-> st.nodes + r.nodes,
                  raised |-> FALSE, stop |-> beta <= alpha]
             Valued(r, value) ==
                 Window(r, value,
                        IF maximizing THEN Max(st.alpha, value) ELSE st.alpha,
                        IF maximizing THEN st.beta ELSE Min(st.beta, value))
             Searched(r) ==
                 IF r.raised
                 THEN [st EXCEPT !.board = r.board, !.nodes = st.nodes + r.nodes,
                                 !.raised = TRUE]
                 ELSE Valued(r, IF maximizing THEN Max(st.value, r.score)
                                ELSE Min(st.value, r.score))
         IN  Searched(_search(make_move(st.board, move), depth - 1, st.alpha,
                              st.beta, ~maximizing))

\* the loop over moves[lo..hi], in order
SearchLoop(st, depth, maximizing, moves, lo, hi) ==
    IF st.stop \/ st.raised \/ lo > hi THEN st
    ELSE IF lo = hi THEN SearchStep(st, depth, maximizing, moves[lo])
    ELSE LET mid == (lo + hi) \div 2
         IN  SearchLoop(SearchLoop(st, depth, maximizing, moves, lo, mid),
                        depth, maximizing, moves, mid + 1, hi)

\* MinimaxSearcher._search on the board b: the score returned, the board as
\* the call leaves it, the number of _search calls made (this one included)
\* and whether it raised.  self.evaluator is SimpleMaterialEvaluator
\* ("material") or a subclass of it whose evaluate raises on a position where
\* the side to move is in check ("quiet"); nothing catches what it raises.
_search(b, depth, alpha, beta, maximizing) ==
    LET Looped(st) ==
            [score |-> st.value, board |-> st.board, nodes |-> st.nodes,
             raised |-> st.raised]
        Ordered(b1, moves) ==
            Looped(SearchLoop([value |-> IF maximizing THEN -_INF ELSE _INF,
                               alpha |-> alpha, beta |-> beta, board |-> b1,
                               nodes |-> 1, raised |-> FALSE, stop |-> FALSE],
                              depth, maximizing, moves, 1, Len(moves)))
        Generated(gl) ==
            IF gl.raised
            THEN [score |-> 0, board |-> gl.board, nodes |-> 1, raised |-> TRUE]
            ELSE IF gl.moves = <<>>
            THEN [score |-> IF is_in_check(gl.board, gl.board.turn)
                            THEN (IF maximizing THEN _INF ELSE -_INF)
                            ELSE 0,
                  board |-> gl.board, nodes |-> 1, raised |-> FALSE]
            ELSE IF depth = 0
            THEN IF evaluator = "quiet" /\ is_in_check(gl.board, gl.board.turn)
                 THEN [score |-> 0, board |-> gl.board, nodes |-> 1, raised |-> TRUE]
                 ELSE [score |-> evaluate(gl.board), board |-> gl.board,
                       nodes |-> 1, raised |-> FALSE]
            ELSE Ordered(gl.board, _order_moves(gl.board, gl.moves))
    IN  Generated(generate_legal_moves(b))

\* the root loop's iteration with an undo that leaves its entry on the undo
\* stack
RootStep_no_pop(st, depth, maximizing, move) ==
    IF st.raised THEN st
    ELSE LET Scored(r, better) ==
                 [best |-> IF better THEN move ELSE st.best,
                  best_score |-> IF better THEN r.score ELSE st.best_score,
                  alpha |-> IF maximizing THEN Max(st.alpha, r.score) ELSE st.alpha,
                  beta |-> IF maximizing THEN st.beta ELSE Min(st.beta, r.score),
                  board |-> [undo_move(r.board) EXCEPT !._history = r.board._history],
                  nodes |-> st.nodes + r.nodes, raised |-> FALSE]
             Searched(r) ==
                 IF r.raised
                 THEN [st EXCEPT !.board = r.board, !.nodes = st.nodes + r.nodes,
                                 !.raised = TRUE]
                 ELSE Scored(r, IF maximizing THEN r.score > st.best_score
                                ELSE r.score < st.best_score)
         IN  Searched(_search(make_move(st.board, move), depth - 1, st.alpha,
                              st.beta, ~maximizing))

\* the root loop's iteration with a default score of 0 put in the place of
\* a failed evaluation
RootStep_default_score(st, depth, maximizing, move) ==
    IF st.raised THEN st
    ELSE LET Scored(r, score, better) ==
                 [best |-> IF better THEN move ELSE st.best,
                  best_score |-> IF better THEN score ELSE st.best_score,
                  alpha |-> IF maximizing THEN Max(st.alpha, score) ELSE st.alpha,
                  beta |-> IF maximizing THEN st.beta ELSE Min(st.beta, score),
                  board |-> undo_move(r.board), nodes |-> st.nodes + r.nodes,
                  raised |-> FALSE]
             Defaulted(r, score) ==
                 Scored(r, score, IF maximizing THEN score > st.best_score
                                  ELSE score < st.best_score)
             Searched(r) == Defaulted(r, IF r.raised THEN 0 ELSE r.score)
         IN  Searched(_search(make_move(st.board, move), depth - 1, st.alpha,
                              st.beta, ~maximizing))

\* one iteration of the root loop of best_move, from the loop state st =
\* [best, best_score, alpha, beta, board, nodes, raised]
RootStep(st, depth, maximizing, move) ==
    IF st.raised THEN st
    ELSE LET Scored(r, better) ==
                 [best |-> IF better THEN move ELSE st.best,
                  best_score |-> IF better THEN r.score ELSE st.best_score,
                  alpha |-> IF maximizing THEN Max(st.alpha, r.score) ELSE st.alpha,
                  beta |-> IF maximizing THEN st.beta ELSE Min(st.beta, r.score),
                  board |-> undo_move(r.board), nodes |-> st.nodes + r.nodes,
                  raised |-> FALSE]
             Searched(r) ==
                 IF r.raised
                 THEN [st EXCEPT !.board = r.board, !.nodes = st.nodes + r.nodes,
                                 !.raised = TRUE]
                 ELSE Scored(r, IF maximizing THEN r.score > st.best_score
                                ELSE r.score < st.best_score)
         IN  Searched(_search(make_move(st.board, move), depth - 1, st.alpha,
                              st.beta, ~maximizing))

RECURSIVE RootLoop(_, _, _, _, _, _)
RootLoop(st, depth, maximizing, moves, lo, hi) ==
    IF st.raised \/ lo > hi THEN st
    ELSE IF lo = hi THEN RootStep(st, depth, maximizing, moves[lo])
    ELSE LET mid == (lo + hi) \div 2
         IN  RootLoop(RootLoop(st, depth, maximizing, moves, lo, mid),
                      depth, maximizing, moves, mid + 1, hi)

\* MinimaxSearcher.best_move on the game's board b with self.depth = depth:
\* the move returned (NoMove for None), best_score as the root loop leaves it
\* (score), the board as the call leaves it, nodes_searched, and whether it
\* raised
best_move(b, depth) ==
    LET maximizing == b.turn = WHITE
        Looped(st) ==
            [move |-> IF st.raised THEN NoMove ELSE st.best,
             score |-> st.best_score, board |-> st.board,
             nodes |-> st.nodes, raised |-> st.raised]
        Ordered(b1, moves) ==
            Looped(RootLoop([best |-> NoMove,
                             best_score |-> IF maximizing THEN -_INF ELSE _INF,
                             alpha |-> -_INF, beta |-> _INF, board |-> b1,
                             nodes |-> 0, raised |-> FALSE],
                            depth, maximizing, moves, 1, Len(moves)))
        Generated(gl) ==
            IF gl.raised
            THEN [move |-> NoMove, score |-> 0, board |-> gl.board, nodes |-> 0,
                  raised |-> TRUE]
            ELSE IF gl.moves = <<>>
            THEN [move |-> NoMove, score |-> 0, board |-> gl.board, nodes |-> 0,
                  raised |-> FALSE]
            ELSE Ordered(gl.board, _order_moves(gl.board, gl.moves))
    IN  Generated(generate_legal_moves(b))

\* ------------------------------------------------------------------------
\* Coordinate text (engine/constants.py, engine/move.py).  A Python str is
\* the sequence of its characters.
\* ------------------------------------------------------------------------
Digits == <<"0", "1", "2", "3", "4", "5", "6", "7", "8", "9">>

Letters == <<"a", "b", "c", "d", "e", "f", "g", "h", "i", "j", "k", "l", "m",
             "n", "o", "p", "q", "r", "s", "t", "u", "v", "w", "x", "y", "z">>

IsDigit(ch) == \E i \in 1..10 : Digits[i] = ch

\* int(ch) for a decimal digit
DigitValue(ch) == (CHOOSE i \in 1..10 : Digits[i] = ch) - 1

\* ord(ch) - ord('a') for a digit or a lower-case letter ('0' is 48, 'a' is 97)
OrdMinusA(ch) ==
    IF IsDigit(ch) THEN DigitValue(ch) - 49
    ELSE (CHOOSE i \in 1..26 : Letters[i] = ch) - 1

square_name(square) ==
    <<Letters[col_of(square) + 1], Digits[(8 - row_of(square)) + 1]>>

\* square_from_name raises (IndexError on a short name, ValueError on a
\* rank character that is no digit)
square_from_name_raises(name) == Len(name) < 2 \/ ~IsDigit(name[2])

square_from_name(name) == sq(8 - DigitValue(name[2]), OrdMinusA(name[1]))

\* _PROMO_LETTER / _LETTER_PROMO
PromoLetter(pt) ==
    IF pt = QUEEN THEN <<"q">> ELSE IF pt = ROOK THEN <<"r">>
    ELSE IF pt = BISHOP THEN <<"b">> ELSE IF pt = KNIGHT THEN <<"n">> ELSE <<>>

LetterPromo(ch) ==
    IF ch = "q" THEN QUEEN ELSE IF ch = "r" THEN ROOK
    ELSE IF ch = "b" THEN BISHOP ELSE IF ch = "n" THEN KNIGHT ELSE None

\* Move.uci
uci(move) ==
    square_name(move.from_sq) \o square_name(move.to_sq) \o
    (IF move.promotion # None THEN PromoLetter(move.promotion) ELSE <<>>)

\* uci[a:b] as Python slices a str (0-based, end exclusive, clipped)
Slice(text, a, b) == SubSeq(text, a + 1, Min(b, Len(text)))

from_uci_raises(text) ==
    \/ square_from_name_raises(Slice(text, 0, 2))
    \/ square_from_name_raises(Slice(text, 2, 4))

\* Move.from_uci: the flags keep their defaults (False)
from_uci(text) ==
    Move(square_from_name(Slice(text, 0, 2)),
         square_from_name(Slice(text, 2, 4)),
         IF Len(text) = 5 THEN LetterPromo(text[5]) ELSE None,
         FALSE, FALSE)

\* ------------------------------------------------------------------------
\* Positions
\* ------------------------------------------------------------------------
_BACK_RANK == <<ROOK, KNIGHT, BISHOP, QUEEN, KING, BISHOP, KNIGHT, ROOK>>

AllRights == [k \in RightKeys |-> TRUE]

NoRights == [k \in RightKeys |-> FALSE]

\* Board.setup_start_position
StartBoard ==
    [squares |-> [s \in 0..63 |->
                    IF row_of(s) = 0 THEN <<BLACK, _BACK_RANK[col_of(s) + 1]>>
                    ELSE IF row_of(s) = 1 THEN <<BLACK, PAWN>>
                    ELSE IF row_of(s) = 6 THEN <<WHITE, PAWN>>
                    ELSE IF row_of(s) = 7 THEN <<WHITE, _BACK_RANK[col_of(s) + 1]>>
                    ELSE NoPiece],
     turn |-> WHITE,
     castling_rights |-> AllRights,
     ep_square |-> None,
     halfmove_clock |-> 0,
     fullmove_number |-> 1,
     _history |-> <<>>]

\* a board holding the pieces placed (a set of <<square, color, piece_type>>),
\* as the tests' _bare_game builds one, with the castling rights given
PlacedBoard(placed, turn, rights) ==
    [squares |-> [s \in 0..63 |->
                    IF \E p \in placed : p[1] = s
                    THEN LET p == CHOOSE p \in placed : p[1] = s IN <<p[2], p[3]>>
                    ELSE NoPiece],
     turn |-> turn,
     castling_rights |-> rights,
     ep_square |-> None,
     halfmove_clock |-> 0,
     fullmove_number |-> 1,
     _history |-> <<>>]

\* GameState.__init__ around a board: nothing committed yet, the position
\* recorded once
NewGame(b) ==
    _record_position([board |-> b, _position_counts |-> << >>,
                      _move_history |-> <<>>, _cached_legal |-> NoList,
                      result |-> ONGOING, draw_reason |-> NoReason,
                      resignation |-> None])

\* ------------------------------------------------------------------------
\* The calls made on a game
\* ------------------------------------------------------------------------
\* what the last call was and how it ended: ret is the value make_move
\* returned (or whether best_move returned a move), raised whether the call
\* raised instead of returning
Call(op, move, color, depth, ret, raised) ==
    [op |-> op, move |-> move, color |-> color, depth |-> depth,
     ret |-> ret, raised |-> raised]

NoCall == Call("init", NoMove, None, 0, FALSE, FALSE)

\* the WebSocket connections open on one session; each runs its own
\* _cvc_loop task
MaxConnections == 2

\* the variables hold game g
InitGame(g) ==
    /\ board = g.board
    /\ _position_counts = g._position_counts
    /\ _move_history = g._move_history
    /\ _cached_legal = g._cached_legal
    /\ result = g.result
    /\ draw_reason = g.draw_reason
    /\ resignation = g.resignation
    /\ nodes_searched = 0
    /\ last = NoCall
    /\ searches = [c \in 1..MaxConnections |-> [running |-> FALSE]]
    /\ evaluator = "material"

\* the call leaves game g
SetGame(g) ==
    /\ board' = g.board
    /\ _position_counts' = g._position_counts
    /\ _move_history' = g._move_history
    /\ _cached_legal' = g._cached_legal
    /\ result' = g.result
    /\ draw_reason' = g.draw_reason
    /\ resignation' = g.resignation

\* GameState.make_move(move)
MakeMove(move) ==
    LET Returned(r) ==
            /\ SetGame(r.g)
            /\ last' = Call("make_move", move, None, 0, r.ret, r.raised)
            /\ UNCHANGED <<nodes_searched, searches, evaluator>>
    IN  Returned(GameState_make_move(Game, move))

\* GameState.resign(color)
Resign(color) ==
    /\ SetGame(resign(Game, color))
    /\ last' = Call("resign", NoMove, color, 0, FALSE, FALSE)
    /\ UNCHANGED <<nodes_searched, searches, evaluator>>

\* a read of the GameState.legal_moves property
LegalMoves ==
    LET Returned(r) ==
            /\ SetGame(r.g)
            /\ last' = Call("legal_moves", NoMove, None, 0, FALSE, r.raised)
            /\ UNCHANGED <<nodes_searched, searches, evaluator>>
    IN  Returned(legal_moves(Game))

\* MinimaxSearcher(SimpleMaterialEvaluator(), depth).best_move(game_state)
BestMove(depth) ==
    LET Returned(r) ==
            /\ board' = r.board
            /\ nodes_searched' = r.nodes
            /\ last' = Call("best_move", r.move, None, depth, r.move # NoMove,
                            r.raised)
            /\ UNCHANGED <<_position_counts, _move_history, _cached_legal, result,
                           draw_reason, resignation, searches, evaluator>>
    IN  Returned(best_move(board, depth))

\* ------------------------------------------------------------------------
\* Games played from small positions: every legal entry, the same moves as
\* Move.from_uci rebuilds them from their text, and some moves that are not
\* legal are submitted
\* ------------------------------------------------------------------------
MaxPlies == 2

\* white to move may castle kingside
CastlePosition ==
    PlacedBoard({<<sq(7, 4), WHITE, KING>>, <<sq(7, 7), WHITE, ROOK>>,
                 <<sq(6, 7), WHITE, PAWN>>, <<sq(0, 4), BLACK, KING>>,
                 <<sq(5, 7), BLACK, PAWN>>},
                WHITE, [NoRights EXCEPT !["K"] = TRUE])

\* black to move; d7-d5 checks the king on e4 and allows e5xd6 en passant
EnPassantPosition ==
    PlacedBoard({<<sq(4, 4), WHITE, KING>>, <<sq(3, 4), WHITE, PAWN>>,
                 <<sq(0, 4), BLACK, KING>>, <<sq(1, 3), BLACK, PAWN>>},
                BLACK, NoRights)

\* white to move mates with Nc7 and stalemates with any other quiet knight move
MatePosition ==
    PlacedBoard({<<sq(0, 2), WHITE, KING>>, <<sq(2, 0), WHITE, PAWN>>,
                 <<sq(3, 1), WHITE, KNIGHT>>, <<sq(0, 0), BLACK, KING>>,
                 <<sq(1, 0), BLACK, PAWN>>},
                WHITE, NoRights)

\* black to move; white then promotes on b8 or by capturing on a8
PromotionPosition ==
    PlacedBoard({<<sq(7, 7), WHITE, KING>>, <<sq(1, 1), WHITE, PAWN>>,
                 <<sq(0, 7), BLACK, KING>>, <<sq(0, 0), BLACK, KNIGHT>>},
                BLACK, NoRights)

\* white to move; Ke4xe5 leaves the two kings
PawnPosition ==
    PlacedBoard({<<sq(4, 4), WHITE, KING>>, <<sq(0, 7), BLACK, KING>>,
                 <<sq(3, 4), BLACK, PAWN>>},
                WHITE, NoRights)

Positions ==
    {CastlePosition, EnPassantPosition, MatePosition, PromotionPosition,
     PawnPosition}

SeqToSet(s) == {s[i] : i \in 1..Len(s)}

\* the entries of generate_legal_moves on b (none if it raises)
LegalEntries(b) ==
    LET Entries(r) == IF r.raised THEN {} ELSE SeqToSet(r.moves)
    IN  Entries(generate_legal_moves(b))

\* moves that match no legal entry: the pseudo-legal moves rejected by the
\* legality filter, and a move from an empty square as the tests submit one
IllegalSamples(b, entries) ==
    {m \in SeqToSet(_pseudo_legal(b, b.turn))
            \cup {Move(sq(4, 4), sq(3, 4), None, FALSE, FALSE)} :
        \A e \in entries : ~MoveEq(m, e)}

\* the moves a client submits on game g
SubmittedMoves(g) ==
    LET Texts(entries) == {from_uci(uci(e)) : e \in entries}
        Moves(entries) ==
            IF g.result = ONGOING
            THEN entries \cup Texts(entries) \cup IllegalSamples(g.board, entries)
            ELSE {Move(sq(4, 4), sq(3, 4), None, FALSE, FALSE)} \cup Texts(entries)
    IN  Moves(LegalEntries(g.board))

Init == \E b \in Positions : InitGame(NewGame(b))

Play ==
    /\ Len(_move_history) < MaxPlies
    /\ \E move \in SubmittedMoves(Game) : MakeMove(move)

Next ==
    \/ Play
    \/ \E color \in {WHITE, BLACK} : Resign(color)
    \/ (_cached_legal = NoList /\ LegalMoves)

Spec == Init /\ [][Next]_vars

\* ------------------------------------------------------------------------
\* Games played by the searcher: a session reads a move with best_move and
\* commits it (api/routes/ws.py, _run_ai_move)
\* ------------------------------------------------------------------------
MaxDepth == 2

MaxSearchPlies == 4

\* white to move is in check and has one legal move, Qb7xg7, which mates
AllMatePosition ==
    PlacedBoard({<<sq(2, 6), WHITE, KING>>, <<sq(1, 1), WHITE, QUEEN>>,
                 <<sq(0, 6), BLACK, KING>>, <<sq(1, 6), BLACK, QUEEN>>,
                 <<sq(5, 7), BLACK, QUEEN>>},
                WHITE, NoRights)

SearchPositions == Positions \cup {AllMatePosition}

InitSearch == \E b \in SearchPositions : InitGame(NewGame(b))

\* _run_ai_move: the move best_move returned is committed, none is ignored
PlayBest ==
    /\ Len(_move_history) < MaxSearchPlies
    /\ last.op = "best_move"
    /\ ~last.raised
    /\ last.move # NoMove
    /\ MakeMove(last.move)

NextSearch ==
    \/ \E depth \in 1..MaxDepth : BestMove(depth)
    \/ PlayBest

SpecSearch == InitSearch /\ [][NextSearch]_vars

\* ------------------------------------------------------------------------
\* Games that end in a draw by repetition or by the fifty-move rule: knight
\* shuffles from the start position (tests/test_game.py,
\* test_threefold_repetition), and a recorded game of king and queen against
\* king whose 99 quiet plies bring halfmove_clock to 99, after which every
\* legal move is tried
\* ------------------------------------------------------------------------
MaxShufflePlies == 8

\* the knights leave their home squares and return
KnightMoves ==
    {Move(sq(7, 1), sq(5, 2), None, FALSE, FALSE),
     Move(sq(5, 2), sq(7, 1), None, FALSE, FALSE),
     Move(sq(7, 6), sq(5, 5), None, FALSE, FALSE),
     Move(sq(5, 5), sq(7, 6), None, FALSE, FALSE),
     Move(sq(0, 1), sq(2, 2), None, FALSE, FALSE),
     Move(sq(2, 2), sq(0, 1), None, FALSE, FALSE),
     Move(sq(0, 6), sq(2, 5), None, FALSE, FALSE),
     Move(sq(2, 5), sq(0, 6), None, FALSE, FALSE)}

\* the squares the white queen visits in the recorded game, d1 first
QueenPath ==
    <<59, 43, 27, 20, 27, 19, 12, 11, 18, 21, 23, 47, 61, 57, 41, 49, 51,
      42, 43, 15, 57, 29, 11, 12, 3, 39, 55, 50, 36, 33, 60, 51, 42, 58,
      63, 59, 52, 53, 5, 23, 58, 37, 38, 35, 21, 14, 49, 55, 37, 19>>

\* black to move: the king goes from a8 to a7 and back while the queen
\* follows QueenPath; no position occurs more than twice
TourPosition ==
    PlacedBoard({<<sq(1, 2), WHITE, KING>>, <<QueenPath[1], WHITE, QUEEN>>,
                 <<sq(0, 0), BLACK, KING>>},
                BLACK, NoRights)

TourLength == 2 * Len(QueenPath) - 1

\* ply i of the recorded game
TourMove(i) ==
    IF i % 2 = 0
    THEN Move(QueenPath[i \div 2], QueenPath[i \div 2 + 1], None, FALSE, FALSE)
    ELSE IF ((i + 1) \div 2) % 2 = 1
    THEN Move(sq(0, 0), sq(1, 0), None, FALSE, FALSE)
    ELSE Move(sq(1, 0), sq(0, 0), None, FALSE, FALSE)

\* the committed moves are the first plies of the recorded game
OnTour ==
    /\ Len(_move_history) <= TourLength
    /\ \A i \in 1..Len(_move_history) : _move_history[i] = TourMove(i)

InitDraws == \E b \in {StartBoard, TourPosition} : InitGame(NewGame(b))

Shuffle ==
    /\ Len(_move_history) < MaxShufflePlies
    /\ \E move \in KnightMoves :
           /\ \E e \in LegalEntries(board) : MoveEq(e, move)
           /\ MakeMove(move)

Tour ==
    /\ Len(_move_history) < TourLength
    /\ OnTour
    /\ \E e \in LegalEntries(board) : MoveEq(e, TourMove(Len(_move_history) + 1))
    /\ MakeMove(TourMove(Len(_move_history) + 1))

TourEnd ==
    /\ Len(_move_history) = TourLength
    /\ OnTour
    /\ \E move \in LegalEntries(board) : MakeMove(move)

NextDraws ==
    LET \* the game of test_scholars_mate, each move submitted as
        \* Move.from_uci decodes its text
        moves_uci == << <<"e", "2", "e", "4">>, <<"e", "7", "e", "5">>,
                       <<"f", "1", "c", "4">>, <<"b", "8", "c", "6">>,
                       <<"d", "1", "h", "5">>, <<"g", "8", "f", "6">>,
                       <<"h", "5", "f", "7">> >>
        Scholar ==
            /\ Len(_move_history) < Len(moves_uci)
            /\ _move_history = <<>> => board.squares = StartBoard.squares
            /\ \A i \in 1..Len(_move_history) : _move_history[i] = from_uci(moves_uci[i])
            /\ MakeMove(from_uci(moves_uci[Len(_move_history) + 1]))
    IN  \/ Shuffle
        \/ Tour
        \/ TourEnd
        \/ Scholar

SpecDraws == InitDraws /\ [][NextDraws]_vars

\* ------------------------------------------------------------------------
\* The insufficient-material test on boards of two kings and a few more
\* pieces
\* ------------------------------------------------------------------------
MaxExtraPieces == 2

\* the kings on e1 and e8, and on a4, b4, c4 (two squares of one colour and
\* one of the other) at most MaxExtraPieces pieces of any colour and type
InitMaterial ==
    LET MaterialSquares == {sq(4, 0), sq(4, 1), sq(4, 2)}
        MaterialPieces ==
            {<<c, pt>> : c \in {WHITE, BLACK},
                         pt \in {PAWN, KNIGHT, BISHOP, ROOK, QUEEN}}
        MaterialBoard(f) ==
            PlacedBoard({<<sq(7, 4), WHITE, KING>>, <<sq(0, 4), BLACK, KING>>} \cup
                        {<<s, f[s][1], f[s][2]>> :
                            s \in {x \in MaterialSquares : f[x] # NoPiece}},
                        WHITE, NoRights)
    IN  \E f \in [MaterialSquares -> MaterialPieces \cup {NoPiece}] :
            /\ Cardinality({s \in MaterialSquares : f[s] # NoPiece})
                   <= MaxExtraPieces
            /\ InitGame(NewGame(MaterialBoard(f)))

\* GameState._is_insufficient_material()
IsInsufficientMaterial ==
    /\ last' = Call("_is_insufficient_material", NoMove, None, 0,
                    _is_insufficient_material(Game), FALSE)
    /\ UNCHANGED <<board, _position_counts, _move_history, _cached_legal, result,
                   draw_reason, resignation, nodes_searched, searches, evaluator>>

NextMaterial == IsInsufficientMaterial

SpecMaterial == InitMaterial /\ [][NextMaterial]_vars

\* ------------------------------------------------------------------------
\* A computer-vs-computer session (api/session.py, api/routes/ws.py,
\* api/routes/rest.py).  Each connection's _cvc_loop hands best_move to a
\* worker thread and commits the move it returns; resign (WebSocket message or
\* REST) and the legal_moves read of to_dict (REST get_state, _send_state) run
\* on other threads at any time.  The worker's best_move is followed one root
\* move at a time: make_move, then _search and undo_move.
\* ------------------------------------------------------------------------
SessionDepth == 1

MaxSessionPlies == 1

\* white to move has the one move Ka1-b1, black then has three king moves;
\* the pawns on h4 and h5 block each other
InitSession ==
    InitGame(NewGame(PlacedBoard({<<sq(7, 0), WHITE, KING>>, <<sq(4, 7), WHITE, PAWN>>,
                                  <<sq(5, 0), BLACK, KING>>, <<sq(3, 7), BLACK, PAWN>>},
                                 WHITE, NoRights)))

NextSession ==
    LET maximizing == board.turn = WHITE
        Idle(c) == [searches EXCEPT ![c] = [running |-> FALSE]]
        \* the exception reaches _run_ai_move, which logs it and returns
        Failed(c, b1) ==
            /\ board' = b1
            /\ searches' = Idle(c)
            /\ last' = Call("best_move", NoMove, None, SessionDepth, FALSE, TRUE)
            /\ UNCHANGED <<_position_counts, _move_history, _cached_legal, result,
                           draw_reason, resignation, nodes_searched, evaluator>>
        \* _cvc_loop, _run_ai_move, compute_ai_move: best_move up to its loop
        Started(c, gl) ==
            IF gl.raised THEN Failed(c, gl.board)
            ELSE /\ board' = gl.board
                 /\ IF gl.moves = <<>>
                    THEN /\ last' = Call("best_move", NoMove, None, SessionDepth,
                                         FALSE, FALSE)
                         /\ nodes_searched' = 0
                         /\ UNCHANGED searches
                    ELSE /\ searches' =
                               [searches EXCEPT ![c] =
                                   [running |-> TRUE,
                                    moves |-> _order_moves(gl.board, gl.moves),
                                    i |-> 1, made |-> FALSE, best |-> NoMove,
                                    best_score |->
                                        IF maximizing THEN -_INF ELSE _INF,
                                    alpha |-> -_INF, beta |-> _INF, nodes |-> 0,
                                    maximizing |-> maximizing]]
                         /\ UNCHANGED <<last, nodes_searched>>
                 /\ UNCHANGED <<_position_counts, _move_history, _cached_legal,
                                result, draw_reason, resignation, evaluator>>
        SearchStart(c) ==
            /\ searches[c] = [running |-> FALSE]
            /\ result = ONGOING
            /\ Len(board._history) < MaxSessionPlies
            /\ Started(c, generate_legal_moves(board))
        \* game_state.board.make_move(move) of the root loop
        SearchMake(c) ==
            /\ searches[c].running
            /\ ~searches[c].made
            /\ searches[c].i <= Len(searches[c].moves)
            /\ IF make_move_raises(board, searches[c].moves[searches[c].i])
               THEN Failed(c, board)
               ELSE /\ board' = make_move(board, searches[c].moves[searches[c].i])
                    /\ searches' = [searches EXCEPT ![c].made = TRUE]
                    /\ UNCHANGED <<_position_counts, _move_history, _cached_legal,
                                   result, draw_reason, resignation,
                                   nodes_searched, last, evaluator>>
        \* self._search(...), game_state.board.undo_move() and the comparison
        Scored(c, s, r) ==
            IF r.raised THEN Failed(c, r.board)
            ELSE LET better == IF s.maximizing THEN r.score > s.best_score
                               ELSE r.score < s.best_score
                 IN  /\ board' = undo_move(r.board)
                     /\ searches' =
                            [searches EXCEPT ![c] =
                                [s EXCEPT
                                    !.best = IF better THEN s.moves[s.i] ELSE s.best,
                                    !.best_score =
                                        IF better THEN r.score ELSE s.best_score,
                                    !.alpha = IF s.maximizing
                                              THEN Max(s.alpha, r.score) ELSE s.alpha,
                                    !.beta = IF s.maximizing THEN s.beta
                                             ELSE Min(s.beta, r.score),
                                    !.nodes = s.nodes + r.nodes,
                                    !.i = s.i + 1, !.made = FALSE]]
                     /\ UNCHANGED <<_position_counts, _move_history,
                                    _cached_legal, result, draw_reason,
                                    resignation, nodes_searched, last, evaluator>>
        SearchScore(c) ==
            /\ searches[c].running
            /\ searches[c].made
            /\ Scored(c, searches[c],
                      _search(board, SessionDepth - 1, searches[c].alpha,
                              searches[c].beta, ~searches[c].maximizing))
        \* best_move returns; _run_ai_move commits the move unless it is None
        \* and, whatever make_move returned, sends the "ai_move" message
        Committed(c, s, r) ==
            /\ SetGame(r.g)
            /\ last' = [op |-> "make_move", move |-> s.best, color |-> None,
                        depth |-> 0, ret |-> r.ret, raised |-> r.raised,
                        sent |-> IF r.raised THEN "" ELSE "ai_move"]
            /\ nodes_searched' = s.nodes
            /\ searches' = [searches EXCEPT ![c] =
                               IF r.raised
                               THEN [running |-> FALSE, stopped |-> TRUE]
                               ELSE [running |-> FALSE]]
            /\ UNCHANGED evaluator
        SearchEnd(c) ==
            /\ searches[c].running
            /\ ~searches[c].made
            /\ searches[c].i > Len(searches[c].moves)
            /\ IF searches[c].best = NoMove
               THEN /\ searches' = Idle(c)
                    /\ last' = Call("best_move", NoMove, None, SessionDepth,
                                    FALSE, FALSE)
                    /\ nodes_searched' = searches[c].nodes
                    /\ UNCHANGED <<board, _position_counts, _move_history,
                                   _cached_legal, result, draw_reason, resignation, evaluator>>
               ELSE Committed(c, searches[c],
                              GameState_make_move(Game, searches[c].best))
        \* a call of GameSession.make_move with the squares and promotion text
        \* of a "move" message
        AttemptMove(from_sq, to_sq, promotion) ==
            LET Returned(r) ==
                    /\ SetGame(r.g)
                    /\ last' = [op |-> "GameSession.make_move",
                                move |-> Move(from_sq, to_sq, None, FALSE, FALSE),
                                color |-> None, depth |-> 0, ret |-> r.ok,
                                raised |-> r.raised, promotion |-> promotion,
                                message |-> r.message]
                    /\ UNCHANGED <<nodes_searched, searches, evaluator>>
            IN  /\ Len(board._history) < MaxSessionPlies
                /\ Returned(GameSession_make_move(Game, from_sq, to_sq, promotion))
    IN  \/ \E c \in 1..MaxConnections : SearchStart(c)
        \/ \E c \in 1..MaxConnections : SearchMake(c)
        \/ \E c \in 1..MaxConnections : SearchScore(c)
        \/ \E c \in 1..MaxConnections : SearchEnd(c)
        \/ \E color \in {WHITE, BLACK} : Resign(color)
        \/ (_cached_legal = NoList /\ LegalMoves)
        \/ \E squares \in {<<sq(7, 0), sq(7, 1)>>, <<sq(4, 4), sq(3, 4)>>},
              promotion \in {"", "queen"} :
               AttemptMove(squares[1], squares[2], promotion)

SpecSession == InitSession /\ [][NextSession]_vars

\* ------------------------------------------------------------------------
\* Games in which moves are submitted, a side resigns, the searcher is asked
\* for a move and the legal moves are read, in any order
\* ------------------------------------------------------------------------
MaxHistoryPlies == 2
HistoryDepth == 1

InitHistory == InitGame(NewGame(MatePosition))

NextHistory ==
    \/ (Len(_move_history) < MaxHistoryPlies
           /\ \E move \in SubmittedMoves(Game) : MakeMove(move))
    \/ \E color \in {WHITE, BLACK} : Resign(color)
    \/ BestMove(HistoryDepth)
    \/ LegalMoves

SpecHistory == InitHistory /\ [][NextHistory]_vars

\* ------------------------------------------------------------------------
\* Castling positions as the generator's tests build them: the side to move
\* has its king on e1/e8 or next to it, a rook or nothing on each corner, any
\* of its two rights set, and up to MaxCastleExtras further pieces that block
\* the back rank or attack it; the legal moves are then read
\* ------------------------------------------------------------------------
MaxCastleExtras == 1

InitCastle ==
    LET \* squares are written from white's side and mirrored for black
        At(color, row, col) == IF color = WHITE THEN sq(row, col) ELSE sq(7 - row, col)
        Extras(color) ==
            {<<At(color, 7, col), color, KNIGHT>> : col \in {1, 2, 3, 5, 6}}
                \cup {<<At(color, 3, col), Opponent(color), ROOK>> : col \in 1..6}
                \cup {<<At(color, 5, col), Opponent(color), KNIGHT>> : col \in {0, 4, 7}}
                \cup {<<At(color, 6, col), Opponent(color), PAWN>> : col \in {3, 6, 7}}
                \cup {<<At(color, 5, col), Opponent(color), BISHOP>> : col \in {1, 7}}
        Rights(color, ks, qs) ==
            IF color = WHITE THEN [NoRights EXCEPT !["K"] = ks, !["Q"] = qs]
            ELSE [NoRights EXCEPT !["k"] = ks, !["q"] = qs]
        Squares(placed) == {p[1] : p \in placed}
    IN  \E color \in {WHITE, BLACK}, king_col \in {3, 4}, ks, qs \in BOOLEAN,
           corners \in SUBSET {0, 7} :
            \E extras \in SUBSET Extras(color) :
                /\ Cardinality(extras) <= MaxCastleExtras
                /\ Cardinality(Squares(extras)) = Cardinality(extras)
                /\ At(color, 7, king_col) \notin Squares(extras)
                /\ InitGame(NewGame(PlacedBoard(
                       {<<At(color, 7, king_col), color, KING>>,
                        <<At(color, 0, 4), Opponent(color), KING>>}
                           \cup {<<At(color, 7, col), color, ROOK>> : col \in corners}
                           \cup extras,
                       color, Rights(color, ks, qs))))

NextCastle == _cached_legal = NoList /\ LegalMoves

SpecCastle == InitCastle /\ [][NextCastle]_vars

\* ------------------------------------------------------------------------
\* Games in which castling rights are lost: white may castle short
\* (CastlePosition), black may castle either way behind blocked rook pawns,
\* the kings have already stepped forward, and a knight can capture the rook
\* on h1
\* ------------------------------------------------------------------------
MaxRightsPlies == 2

InitRights ==
    LET BlackAtHome ==
            PlacedBoard({<<sq(0, 4), BLACK, KING>>, <<sq(0, 0), BLACK, ROOK>>,
                         <<sq(0, 7), BLACK, ROOK>>, <<sq(1, 0), BLACK, PAWN>>,
                         <<sq(1, 7), BLACK, PAWN>>, <<sq(2, 0), WHITE, PAWN>>,
                         <<sq(2, 7), WHITE, PAWN>>, <<sq(7, 4), WHITE, KING>>},
                        BLACK, [NoRights EXCEPT !["k"] = TRUE, !["q"] = TRUE])
        \* CastlePosition after 1. Ke2 Ke7
        KingsMoved ==
            [PlacedBoard({<<sq(6, 4), WHITE, KING>>, <<sq(7, 7), WHITE, ROOK>>,
                          <<sq(6, 7), WHITE, PAWN>>, <<sq(1, 4), BLACK, KING>>,
                          <<sq(5, 7), BLACK, PAWN>>},
                         WHITE, NoRights)
                EXCEPT !.halfmove_clock = 2, !.fullmove_number = 2]
        KnightTakes ==
            PlacedBoard({<<sq(7, 4), WHITE, KING>>, <<sq(7, 7), WHITE, ROOK>>,
                         <<sq(6, 7), WHITE, PAWN>>, <<sq(0, 4), BLACK, KING>>,
                         <<sq(5, 6), BLACK, KNIGHT>>},
                        BLACK, [NoRights EXCEPT !["K"] = TRUE])
    IN  \E b \in {CastlePosition, BlackAtHome, KingsMoved, KnightTakes} :
            InitGame(NewGame(b))

NextRights ==
    /\ Len(_move_history) < MaxRightsPlies
    /\ \E move \in SubmittedMoves(Game) : MakeMove(move)

SpecRights == InitRights /\ [][NextRights]_vars

\* ------------------------------------------------------------------------
\* Searches with an evaluator that may raise: the searcher holds either
\* evaluator and is asked for a move in rook endings, white's rook on the
\* fourth rank and black's king on a8 to d8, either side to move; a caller
\* does not search again once a search has failed
\* ------------------------------------------------------------------------
MaxEvaluatorDepth == 1

InitEvaluator ==
    \E rook_col \in 0..7, king_col \in 0..3, turn \in {WHITE, BLACK} :
        LET SetBoard(g) ==
                /\ board = g.board
                /\ _position_counts = g._position_counts
                /\ _move_history = g._move_history
                /\ _cached_legal = g._cached_legal
                /\ result = g.result
                /\ draw_reason = g.draw_reason
                /\ resignation = g.resignation
            Built(g) ==
                /\ SetBoard(g)
                /\ nodes_searched = 0
                /\ last = NoCall
                /\ searches = [c \in 1..MaxConnections |-> [running |-> FALSE]]
                /\ evaluator \in {"material", "quiet"}
        IN  /\ turn = WHITE => rook_col # king_col
            /\ Built(NewGame(PlacedBoard({<<sq(7, 4), WHITE, KING>>,
                                          <<sq(4, rook_col), WHITE, ROOK>>,
                                          <<sq(0, king_col), BLACK, KING>>},
                                         turn, NoRights)))

NextEvaluator ==
    /\ ~last.raised
    /\ \E depth \in 1..MaxEvaluatorDepth : BestMove(depth)

SpecEvaluator == InitEvaluator /\ [][NextEvaluator]_vars

\* ------------------------------------------------------------------------
\* Coordinate texts decoded by Move.from_uci (engine/move.py), as the tests
\* and a client of the engine call it
\* ------------------------------------------------------------------------
MaxTextLen == 6

InitText == InitGame(NewGame(StartBoard))

NextText ==
    LET \* characters in and out of the ranges of a coordinate
        chars == {"e", "i", "4", "9", "q", "x"}
        Decoded(text, raised) ==
            [op |-> "from_uci", text |-> text,
             move |-> IF raised THEN NoMove ELSE from_uci(text),
             color |-> None, depth |-> 0, ret |-> FALSE, raised |-> raised]
    IN  \* one text is decoded in a run
        /\ last = NoCall
        /\ \E n \in 0..MaxTextLen : \E text \in [1..n -> chars] :
               last' = Decoded(text, from_uci_raises(text))
        /\ UNCHANGED <<board, _position_counts, _move_history, _cached_legal,
                       result, draw_reason, resignation, nodes_searched,
                       searches, evaluator>>

SpecText == InitText /\ [][NextText]_vars

\* ------------------------------------------------------------------------
\* Searchers of growing depth on one game (tests/test_search.py,
\* test_nodes_searched_increases_with_depth): a searcher of depth 1 is asked
\* for a move, then one of depth 2, and so on; in between the move a search
\* returned may be committed. The games start in endings with few pieces,
\* white to move
\* ------------------------------------------------------------------------
MaxNodesDepth == 3

MaxNodesPlies == 3

InitNodes ==
    LET RookEnding ==
            PlacedBoard({<<sq(3, 6), WHITE, KING>>, <<sq(2, 5), WHITE, PAWN>>,
                         <<sq(2, 1), BLACK, KING>>, <<sq(6, 7), BLACK, PAWN>>,
                         <<sq(0, 2), BLACK, ROOK>>},
                        WHITE, NoRights)
    IN  \E b \in {RookEnding, PawnPosition, MatePosition} : InitGame(NewGame(b))

NextNodes ==
    LET depth == IF last.op = "best_move" THEN last.depth + 1 ELSE 1
        Deeper == depth <= MaxNodesDepth /\ BestMove(depth)
        Commit == Len(_move_history) < MaxNodesPlies /\ PlayBest
    IN  \/ Deeper
        \/ Commit

SpecNodes == InitNodes /\ [][NextNodes]_vars

\* ------------------------------------------------------------------------
\* Openings from the start position: the king's pawns step two squares and
\* the knights go out and come back, each move submitted as Move.from_uci
\* decodes its text (tests/test_game.py, test_make_move_returns_true_for_legal
\* and test_threefold_repetition); a text that is not legal is refused
\* ------------------------------------------------------------------------
MaxOpeningPlies == 4

InitOpening == InitGame(NewGame(StartBoard))

NextOpening ==
    LET texts == {<<"e", "2", "e", "4">>, <<"e", "7", "e", "5">>,
                  <<"g", "1", "f", "3">>, <<"f", "3", "g", "1">>,
                  <<"g", "8", "f", "6">>, <<"f", "6", "g", "8">>,
                  <<"b", "1", "c", "3">>, <<"b", "8", "c", "6">>}
    IN  /\ Len(_move_history) < MaxOpeningPlies
        /\ \E text \in texts : MakeMove(from_uci(text))

SpecOpening == InitOpening /\ [][NextOpening]_vars

\* ------------------------------------------------------------------------
\* Properties
\* ------------------------------------------------------------------------
\* color's king can be captured on b: some pseudo-legal move of the other
\* side ends on the square the king stands on
KingCapturable(b, color) ==
    \E m \in SeqToSet(_pseudo_legal(b, Opponent(color))) :
        b.squares[m.to_sq] = <<color, KING>>

PseudoMoves(b) ==
    SeqToSet(_pseudo_legal(b, b.turn)) \cup SeqToSet(_castling_moves(b, b.turn))

RECURSIVE UndoAll(_)
\* undo_move repeated until the undo stack is empty
UndoAll(b) == IF b._history = <<>> THEN b ELSE UndoAll(undo_move(b))

\* C2: on every board the game reaches, make_move of any pseudo-legal or
\* castling move followed at once by undo_move gives back the very same board
\* (squares, turn, castling rights, ep_square, both clocks and the undo
\* stack), and undoing all the k moves made on the board gives back the
\* position the game started from.
C2_MakeUndoRestores ==
    /\ \A m \in PseudoMoves(board) : undo_move(make_move(board, m)) = board
    /\ UndoAll(board) \in Positions

\* moves have been made on the board, and an en-passant capture and a
\* capture are among the moves that can be made and undone next
C2_Witness ==
    /\ board._history # <<>>
    /\ \E m \in PseudoMoves(board) : m.is_en_passant
    /\ \E m \in PseudoMoves(board) : board.squares[m.to_sq] # NoPiece

\* move matches, by (from_sq, to_sq, promotion), an entry of the legal-move
\* list of board b
Matches(move, b) == \E e \in LegalEntries(b) : MoveEq(e, move)

\* the legal-move list of board b exists (generate_legal_moves returns)
Listable(b) == ~generate_legal_moves(b).raised

\* C3: a call of GameState.make_move made when the result is not ongoing, or
\* with a move that matches no entry of the current legal-move list, returns
\* failure and leaves board, move history, position counts, result and draw
\* reason as they were; a call returns success only when the game was ongoing
\* and the move matched an entry.
C3_RejectedMoveChangesNothing ==
    [][last'.op = "make_move" =>
          /\ (result # ONGOING \/ (Listable(board) /\ ~Matches(last'.move, board)))
                => /\ ~last'.ret
                   /\ ~last'.raised
                   /\ board' = board
                   /\ _move_history' = _move_history
                   /\ _position_counts' = _position_counts
                   /\ result' = result
                   /\ draw_reason' = draw_reason
          /\ last'.ret => (result = ONGOING /\ Matches(last'.move, board))]_vars

\* a move that matches no legal entry was refused in an ongoing game that
\* has legal moves
C3_Witness ==
    /\ last.op = "make_move"
    /\ ~last.ret
    /\ ~last.raised
    /\ result = ONGOING
    /\ LegalEntries(board) # {}
    /\ ~Matches(last.move, board)

\* the side to move on b has no legal move
NoLegalMoves(b) == Listable(b) /\ LegalEntries(b) = {}

\* C4: once a move has been committed, a side to move without legal moves
\* has lost to the side that just moved if it is in check, and otherwise the
\* game is a draw by stalemate; and a win that is no resignation, or a
\* stalemate draw, stands only where the side to move has no legal moves.
C4_MateAndStalemate ==
    /\ (_move_history # <<>> /\ NoLegalMoves(board)) =>
          IF KingCapturable(board, board.turn)
          THEN /\ result = (IF board.turn = WHITE THEN BLACK_WINS ELSE WHITE_WINS)
               /\ draw_reason = NoReason
          ELSE result = DRAW /\ draw_reason = STALEMATE
    /\ ((result \in {WHITE_WINS, BLACK_WINS} /\ resignation = None)
        \/ draw_reason = STALEMATE) => NoLegalMoves(board)

\* a committed move has mated the side to move
C4_Witness ==
    /\ last.op = "make_move"
    /\ last.ret
    /\ NoLegalMoves(board)
    /\ is_in_check(board, board.turn)
    /\ result = WHITE_WINS

\* C5: MinimaxSearcher.best_move with depth >= 1 returns a member of the
\* position's legal moves, and returns none if and only if the side to move
\* has no legal moves
C5_BestMoveReturnsLegalMove ==
    (last.op = "best_move" /\ ~last.raised /\ last.depth >= 1) =>
        IF LegalEntries(board) = {}
        THEN last.move = NoMove
        ELSE last.move \in LegalEntries(board)

\* C6: after best_move returns normally the GameState is as before the call:
\* the board with its undo stack, the move history, the position counts, the
\* cached legal moves, the result and the draw reason are unchanged
C6_SearchLeavesGameUnchanged ==
    [][(last'.op = "best_move" /\ ~last'.raised) =>
           /\ board' = board
           /\ _move_history' = _move_history
           /\ _position_counts' = _position_counts
           /\ _cached_legal' = _cached_legal
           /\ result' = result
           /\ draw_reason' = draw_reason]_vars

\* a search of depth 2 that visited several nodes and returned a move, in a
\* game with a committed move and an undo stack that is not empty
C6_Witness ==
    /\ last.op = "best_move"
    /\ ~last.raised
    /\ last.depth >= 2
    /\ last.move # NoMove
    /\ nodes_searched > Len(generate_legal_moves(board).moves)
    /\ board._history # <<>>
    /\ _cached_legal # NoList

\* how many of the committed positions of b, the initial one included, have
\* hash h: the positions are those the undo stack leads back through
RECURSIVE Occurrences(_, _)
Occurrences(b, h) ==
    LET Counted(here, rest) == (IF here = h THEN 1 ELSE 0) + rest
    IN  Counted(hash_board(b),
                IF b._history = <<>> THEN 0 ELSE Occurrences(undo_move(b), h))

\* C7 as stated: the committed move that makes the current position's hash
\* occur for the third time among the committed positions (the initial one
\* counting as the first) gives result draw with reason threefold, and no
\* threefold draw is declared while the position has occurred at most twice
C7_ThreefoldOnThirdOccurrence ==
    (last.op = "make_move" /\ last.ret) =>
        LET Stated(n) ==
                /\ n >= 3 => (result = DRAW /\ draw_reason = THREEFOLD)
                /\ draw_reason = THREEFOLD => n >= 3
        IN  Stated(Occurrences(board, hash_board(board)))

\* C7 amended: the same, unless the move also brings halfmove_clock to 100
\* or more, when the draw is declared with reason fifty-move
C7_ThreefoldUnlessFiftyMove ==
    (last.op = "make_move" /\ last.ret) =>
        LET Stated(n) ==
                /\ n >= 3 =>
                       /\ result = DRAW
                       /\ draw_reason = IF board.halfmove_clock >= 100
                                        THEN FIFTY_MOVE ELSE THREEFOLD
                /\ draw_reason = THREEFOLD => n >= 3
        IN  Stated(Occurrences(board, hash_board(board)))

\* the eighth ply of the knight shuffle brings the start position back for
\* the third time and the game is drawn by repetition
C7_Witness ==
    /\ last.op = "make_move"
    /\ last.ret
    /\ Len(_move_history) = 8
    /\ [board EXCEPT !._history = <<>>, !.halfmove_clock = 0,
                      !.fullmove_number = 1] = StartBoard
    /\ Occurrences(board, hash_board(board)) = 3
    /\ result = DRAW
    /\ draw_reason = THREEFOLD

\* C8 as stated: a committed move that brings halfmove_clock to 100 gives
\* result draw with reason fifty-move on that move
C8_FiftyMoveAtClock100 ==
    (last.op = "make_move" /\ last.ret /\ board.halfmove_clock = 100) =>
        (result = DRAW /\ draw_reason = FIFTY_MOVE)

\* C8 amended: a committed move that brings halfmove_clock to 100 and leaves
\* the side to move a legal move gives result draw with reason fifty-move on
\* that move; when it leaves no legal move the game ends as checkmate or
\* stalemate
C8_FiftyMoveUnlessNoLegalMoves ==
    (last.op = "make_move" /\ last.ret /\ board.halfmove_clock = 100) =>
        IF NoLegalMoves(board)
        THEN \/ result = DRAW /\ draw_reason = STALEMATE
             \/ result \in {WHITE_WINS, BLACK_WINS} /\ draw_reason = NoReason
        ELSE result = DRAW /\ draw_reason = FIFTY_MOVE

\* the hundredth quiet ply leaves black a legal move and the game is drawn by
\* the fifty-move rule
C8_Witness ==
    /\ last.op = "make_move"
    /\ last.ret
    /\ Len(_move_history) = 100
    /\ board.halfmove_clock = 100
    /\ ~NoLegalMoves(board)
    /\ result = DRAW
    /\ draw_reason = FIFTY_MOVE

\* C9: the insufficient-material test is true exactly for (a) two bare
\* kings, (b) king and a single bishop or knight against a bare king, (c)
\* king and bishop against king and bishop with the bishops on squares of the
\* same colour, and false for every other material
C9_InsufficientMaterialExact ==
    last.op = "_is_insufficient_material" =>
        LET others == {s \in 0..63 : /\ board.squares[s] # NoPiece
                                     /\ board.squares[s][2] # KING}
            light(s) == (row_of(s) + col_of(s)) % 2 = 0
            BareKings == others = {}
            SingleMinor ==
                \E s \in others :
                    /\ others = {s}
                    /\ board.squares[s][2] \in {BISHOP, KNIGHT}
            OpposedBishops ==
                \E s1, s2 \in others :
                    /\ s1 # s2
                    /\ others = {s1, s2}
                    /\ board.squares[s1] = <<WHITE, BISHOP>>
                    /\ board.squares[s2] = <<BLACK, BISHOP>>
                    /\ light(s1) = light(s2)
        IN  last.ret <=> (BareKings \/ SingleMinor \/ OpposedBishops)

\* the test answered true for bishops of both sides on same-coloured squares
C9_Witness ==
    /\ last.op = "_is_insufficient_material"
    /\ last.ret
    /\ board.squares[sq(4, 0)] = <<WHITE, BISHOP>>
    /\ board.squares[sq(4, 2)] = <<BLACK, BISHOP>>

\* C10: when GameState.make_move accepts a move equal by from, to and
\* promotion to a legal castling or en-passant entry, the squares of the
\* resulting board are those obtained by applying that legal entry (rook
\* relocated, captured pawn removed), whatever flags the submitted move
\* carries
C10_AcceptedSpecialMoveAppliesLegalEntry ==
    [][(last'.op = "make_move" /\ last'.ret) =>
           \A e \in LegalEntries(board) :
               (MoveEq(e, last'.move) /\ (e.is_castle \/ e.is_en_passant)) =>
                   board'.squares = make_move(board, e).squares]_vars

\* C11: whenever the side to move has a legal move after which the opponent
\* is in check and has no legal moves, best_move with depth >= 1 returns a
\* move that delivers checkmate
C11_MateInOneIsPlayed ==
    (last.op = "best_move" /\ ~last.raised /\ last.depth >= 1) =>
        LET Mated(b1) == NoLegalMoves(b1) /\ is_in_check(b1, b1.turn)
            Stated(mating) == mating # {} => last.move \in mating
        IN  Stated({e \in LegalEntries(board) : Mated(make_move(board, e))})

\* C12: once the result is not ongoing, no make_move or resign call changes
\* the result, the draw reason, the board, the move history or the position
\* counts, and none of those calls raises
C12_FinishedGameIsAbsorbing ==
    [][(result # ONGOING /\ last'.op \in {"make_move", "resign"}) =>
           /\ result' = result
           /\ draw_reason' = draw_reason
           /\ board' = board
           /\ _move_history' = _move_history
           /\ _position_counts' = _position_counts
           /\ ~last'.raised
           /\ ~last'.ret]_vars

\* a move that matches a legal entry was submitted to a finished game and
\* refused
C12_Witness ==
    /\ result # ONGOING
    /\ last.op = "make_move"
    /\ ~last.ret
    /\ Matches(last.move, board)

\* C13: resign(color) on an ongoing game sets the result to a win for the
\* opponent of color, records color as the resigning side, and leaves the
\* board, the move history, the position counts and the draw reason unchanged
C13_ResignGivesOpponentTheWin ==
    [][(result = ONGOING /\ last'.op = "resign") =>
           /\ result' = IF last'.color = WHITE THEN BLACK_WINS ELSE WHITE_WINS
           /\ resignation' = last'.color
           /\ board' = board
           /\ _move_history' = _move_history
           /\ _position_counts' = _position_counts
           /\ draw_reason' = draw_reason]_vars

\* black resigned a game in which a move had been committed
C13_Witness ==
    /\ last.op = "resign"
    /\ last.color = BLACK
    /\ resignation = BLACK
    /\ result = WHITE_WINS
    /\ _move_history # <<>>

\* C14: while a search is in progress on a session's GameState no other
\* operation on it executes: over any step that a connection's search is
\* running before and after, no other connection's search starts or advances,
\* and no resign, move application or legal_moves read of to_dict takes place
C14_SearchExcludesOtherOperations ==
    [][\A c \in 1..MaxConnections :
           (searches[c].running /\ searches'[c].running) =>
               /\ \A d \in (1..MaxConnections) \ {c} : searches'[d] = searches[d]
               /\ last' = last
               /\ result' = result
               /\ _cached_legal' = _cached_legal
               /\ _move_history' = _move_history]_vars

\* C15: the occurrence counts of the positions add up to the number of
\* committed moves plus one, and the move history grows by exactly the
\* submitted move on every make_move that returns True and is left as it was
\* by every rejected make_move, every resign and every best_move
C15_CountsAndHistoryFollowCommittedMoves ==
    [][LET RECURSIVE Sum(_, _)
           Sum(counts, keys) ==
               IF keys = {} THEN 0
               ELSE LET k == CHOOSE x \in keys : TRUE
                    IN  counts[k] + Sum(counts, keys \ {k})
           Total(counts) == Sum(counts, DOMAIN counts)
       IN  /\ Total(_position_counts) = Len(_move_history) + 1
           /\ Total(_position_counts') = Len(_move_history') + 1
           /\ IF last'.op = "make_move" /\ last'.ret
              THEN _move_history' = Append(_move_history, last'.move)
              ELSE _move_history' = _move_history]_vars

\* two moves have been committed, a search has run on the
\* game and a side has then resigned
C15_Witness ==
    /\ Len(_move_history) = 2
    /\ last.op = "resign"
    /\ result \in {WHITE_WINS, BLACK_WINS}
    /\ resignation # None
    /\ nodes_searched > 0

\* C16: before and after every make_move, resign, best_move and legal_moves
\* read, a cached legal list that is present is the list generate_legal_moves
\* produces for the board as it stands (so the list cached before an accepted
\* make_move is not kept), and a read that finds a list cached leaves it as it
\* is
C16_CachedLegalMovesAreCurrent ==
    [][LET Current(cached, r) ==
               cached # NoList => (~r.raised /\ cached[1] = r.moves)
       IN  /\ Current(_cached_legal, generate_legal_moves(board))
           /\ Current(_cached_legal', generate_legal_moves(board'))
           /\ (last'.op = "legal_moves" /\ _cached_legal # NoList)
                  => _cached_legal' = _cached_legal]_vars

\* the list cached by a committed move is read again after a search has run
C16_Witness ==
    /\ last.op = "legal_moves"
    /\ _cached_legal # NoList
    /\ _move_history # <<>>
    /\ nodes_searched > 0
    /\ result = ONGOING

\* C17: once the legal moves of a castling position are generated, the list
\* holds the king-side (queen-side) castling move of the side to move exactly
\* when that right is set, king and rook stand on their home squares, the
\* squares between them are empty, and the opponent could capture on none of
\* the king's start, transit and destination squares
C17_CastlingOfferedExactlyWhenAllowed ==
    LET color == board.turn
        home == IF color = WHITE THEN 7 ELSE 0
        \* the opponent has a pseudo-legal capture of a piece standing on s
        Attacked(s) ==
            LET Occupied(b) == \E m \in SeqToSet(_pseudo_legal(b, Opponent(color))) :
                                   m.to_sq = s
            IN  Occupied([board EXCEPT !.turn = Opponent(color),
                                       !.squares[s] = IF @ = NoPiece
                                                      THEN <<color, KNIGHT>> ELSE @])
        Allowed(right, rook_col, between, path) ==
            /\ board.castling_rights[right]
            /\ board.squares[sq(home, 4)] = <<color, KING>>
            /\ board.squares[sq(home, rook_col)] = <<color, ROOK>>
            /\ \A col \in between : board.squares[sq(home, col)] = NoPiece
            /\ \A col \in path : ~Attacked(sq(home, col))
        Offered(to_col) ==
            \E e \in SeqToSet(_cached_legal[1]) :
                e.from_sq = sq(home, 4) /\ e.to_sq = sq(home, to_col) /\ e.is_castle
    IN  _cached_legal # NoList =>
            /\ Offered(6) <=> Allowed(IF color = WHITE THEN "K" ELSE "k", 7,
                                      {5, 6}, {4, 5, 6})
            /\ Offered(2) <=> Allowed(IF color = WHITE THEN "Q" ELSE "q", 0,
                                      {1, 2, 3}, {4, 3, 2})

\* black's legal moves hold O-O but not O-O-O: both rights are set, king and
\* rooks are at home and the back rank is empty, and a white rook on the
\* d-file attacks d8
C17_Witness ==
    /\ _cached_legal # NoList
    /\ board.turn = BLACK
    /\ board.castling_rights["k"] /\ board.castling_rights["q"]
    /\ board.squares[sq(0, 4)] = <<BLACK, KING>>
    /\ board.squares[sq(0, 0)] = <<BLACK, ROOK>>
    /\ board.squares[sq(0, 7)] = <<BLACK, ROOK>>
    /\ \A col \in {1, 2, 3, 5, 6} : board.squares[sq(0, col)] = NoPiece
    /\ board.squares[sq(4, 3)] = <<WHITE, ROOK>>
    /\ \E e \in SeqToSet(_cached_legal[1]) : e.to_sq = sq(0, 6) /\ e.is_castle
    /\ \A e \in SeqToSet(_cached_legal[1]) : ~e.is_castle \/ e.to_sq # sq(0, 2)

\* C18: along the committed moves of a game no castling right goes from false
\* back to true; in the position before and after every move the side to move
\* is offered no castling move whose right is false; and an accepted move of
\* a king clears both rights of its colour, an accepted move of a rook from a
\* home corner clears that corner's right, and an accepted capture on a home
\* corner clears that corner's right
C18_CastlingRightsOnlyLost ==
    [][LET Corner(k) == CASE k = "K" -> sq(7, 7) [] k = "Q" -> sq(7, 0)
                          [] k = "k" -> sq(0, 7) [] k = "q" -> sq(0, 0)
           Target(k) == CASE k = "K" -> sq(7, 6) [] k = "Q" -> sq(7, 2)
                          [] k = "k" -> sq(0, 6) [] k = "q" -> sq(0, 2)
           Owner(k) == IF k \in {"K", "Q"} THEN WHITE ELSE BLACK
           NotOffered(b, cached) ==
               cached # NoList =>
                   \A k \in RightKeys : \A e \in SeqToSet(cached[1]) :
                       (b.turn = Owner(k) /\ ~b.castling_rights[k])
                           => ~(e.is_castle /\ e.to_sq = Target(k))
           Cleared(move, piece, captured) ==
               \A k \in RightKeys :
                   (\/ piece = <<Owner(k), KING>>
                    \/ (piece[2] = ROOK /\ move.from_sq = Corner(k))
                    \/ (captured # NoPiece /\ move.to_sq = Corner(k)))
                       => ~board'.castling_rights[k]
       IN  /\ \A k \in RightKeys : board'.castling_rights[k] => board.castling_rights[k]
           /\ NotOffered(board, _cached_legal)
           /\ NotOffered(board', _cached_legal')
           /\ (last'.op = "make_move" /\ last'.ret)
                  => Cleared(last'.move, board.squares[last'.move.from_sq],
                             board.squares[last'.move.to_sq])]_vars

\* white's king has come back to e1 after the right was lost: the rook
\* stands on h1, f1 and g1 are empty, and the legal moves of white, to move
\* after black's reply, hold no castling move
C18_Witness ==
    /\ Len(_move_history) = 2
    /\ board.turn = WHITE
    /\ board.squares[sq(7, 4)] = <<WHITE, KING>>
    /\ board.squares[sq(7, 7)] = <<WHITE, ROOK>>
    /\ board.squares[sq(7, 5)] = NoPiece /\ board.squares[sq(7, 6)] = NoPiece
    /\ ~board.castling_rights["K"]
    /\ ~is_in_check(board, WHITE)
    /\ _cached_legal # NoList
    /\ \A e \in SeqToSet(_cached_legal[1]) : ~e.is_castle

\* C19: a call of GameSession.make_move (a step that is no step of a search)
\* made on a finished game, or with squares and promotion that match no entry
\* of the legal-move list, does not raise, returns False with a non-empty message, and leaves board, history,
\* position counts, result, draw reason and resignation as they were
C19_RejectedAttemptIsExplained ==
    [][LET NoMatch(moves) ==
               \A e \in SeqToSet(moves) :
                   ~(/\ e.from_sq = last'.move.from_sq
                     /\ e.to_sq = last'.move.to_sq
                     /\ e.promotion = (IF last'.promotion = "queen" THEN QUEEN ELSE None))
       IN  (/\ last'.op = "GameSession.make_move"
            /\ searches' = searches
            /\ (result # ONGOING \/ NoMatch(legal_moves(Game).moves)))
               => /\ ~last'.raised
                  /\ ~last'.ret
                  /\ last'.message # ""
                  /\ board' = board
                  /\ _move_history' = _move_history
                  /\ _position_counts' = _position_counts
                  /\ result' = result
                  /\ draw_reason' = draw_reason
                  /\ resignation' = resignation]_vars

\* C20: when best_move is called at depth 1 with the evaluator that raises and
\* some legal move leads to a position it raises on (the side to move in
\* check, with a legal move left, so that the position is evaluated), the call
\* raises and returns no move, and nothing is committed to the game
C20_EvaluatorFailurePropagates ==
    [][LET Evaluated(b1) == ~NoLegalMoves(b1)
           Refused(b1) == is_in_check(b1, b1.turn)
           Failing(entries) ==
               \E e \in entries :
                   Evaluated(make_move(board, e)) /\ Refused(make_move(board, e))
       IN  (/\ last'.op = "best_move"
            /\ last'.depth = 1
            /\ evaluator = "quiet"
            /\ Failing(LegalEntries(board)))
               => /\ last'.raised
                  /\ last'.move = NoMove
                  /\ ~last'.ret
                  /\ _move_history' = _move_history
                  /\ _position_counts' = _position_counts
                  /\ result' = result]_vars

\* a search for white has raised on a rook check that black can answer and
\* has returned no move
C20_Witness ==
    /\ evaluator = "quiet"
    /\ last.op = "best_move"
    /\ last.depth = 1
    /\ last.raised
    /\ last.move = NoMove
    /\ is_in_check(board, BLACK)

\* C21: best_move called again on the same position with the same depth
\* returns the same move, and the move it returns is, among the root moves
\* whose score (the value of _search on the position after the move, with the
\* full window) is the best for the side to move, the first in the list
\* _order_moves makes of the generated moves
C21_FirstBestRootMoveIsReturned ==
    (last.op = "best_move" /\ ~last.raised /\ last.depth >= 1
        /\ LegalEntries(board) # {}) =>
        LET maximizing == board.turn = WHITE
            Score(move) ==
                _search(make_move(board, move), last.depth - 1, -_INF, _INF,
                        ~maximizing).score
            First(ordered, scores) ==
                LET best == CHOOSE i \in 1..Len(ordered) :
                                \A j \in 1..Len(ordered) :
                                    IF maximizing THEN scores[j] <= scores[i]
                                    ELSE scores[j] >= scores[i]
                IN  ordered[CHOOSE i \in 1..Len(ordered) :
                                /\ scores[i] = scores[best]
                                /\ \A j \in 1..(i - 1) : scores[j] # scores[best]]
            Stated(ordered) ==
                last.move = First(ordered, [i \in 1..Len(ordered) |-> Score(ordered[i])])
        IN  /\ best_move(board, last.depth).move = last.move
            /\ Stated(_order_moves(board, generate_legal_moves(board).moves))

\* C22: best_move at depth 1 with the material evaluator returns the capture
\* of an enemy queen that no legal reply can take back, when every other legal
\* move leaves the side to move a worse material balance than that capture
C22_FreeQueenIsCaptured ==
    (last.op = "best_move" /\ ~last.raised /\ last.depth = 1
        /\ evaluator = "material") =>
        LET mover == board.turn
            Balance(move) ==
                IF mover = WHITE THEN evaluate(make_move(board, move))
                ELSE -evaluate(make_move(board, move))
            Hanging(move) ==
                /\ board.squares[move.to_sq] = <<Opponent(mover), QUEEN>>
                /\ \A reply \in LegalEntries(make_move(board, move)) :
                       reply.to_sq # move.to_sq
            Stated(entries) ==
                \A e \in entries :
                    (Hanging(e) /\ \A other \in entries \ {e} :
                                       Balance(other) < Balance(e))
                        => last.move = e
        IN  Stated(LegalEntries(board))

\* C23: in the game e2e4 e7e5 f1c4 b8c6 d1h5 g8f6 h5f7 played from the
\* starting position with moves decoded by Move.from_uci, every move is
\* accepted, the game is ongoing after each of the first six, and after the
\* seventh White has won with Black checkmated
C23_ScholarsMate ==
    [][LET Text(i) == CASE i = 1 -> <<"e", "2", "e", "4">>
                        [] i = 2 -> <<"e", "7", "e", "5">>
                        [] i = 3 -> <<"f", "1", "c", "4">>
                        [] i = 4 -> <<"b", "8", "c", "6">>
                        [] i = 5 -> <<"d", "1", "h", "5">>
                        [] i = 6 -> <<"g", "8", "f", "6">>
                        [] i = 7 -> <<"h", "5", "f", "7">>
           n == Len(_move_history)
       IN  (/\ n < 7
            /\ _move_history = <<>> => board.squares = StartBoard.squares
            /\ \A i \in 1..n : uci(_move_history[i]) = Text(i)
            /\ last'.op = "make_move"
            /\ uci(last'.move) = Text(n + 1))
               => /\ last'.ret
                  /\ ~last'.raised
                  /\ Len(_move_history') = n + 1
                  /\ IF n + 1 < 7 THEN result' = ONGOING
                     ELSE /\ result' = WHITE_WINS
                          /\ resignation' = None
                          /\ NoLegalMoves(board')
                          /\ is_in_check(board', BLACK)]_vars

\* the seventh move has been played: the queen stands on f7
C23_Witness ==
    /\ Len(_move_history) = 7
    /\ uci(_move_history[7]) = <<"h", "5", "f", "7">>
    /\ board.squares[sq(1, 5)] = <<WHITE, QUEEN>>
    /\ result = WHITE_WINS

\* C24: generate_legal_moves lists exactly 20 moves, all different, for White
\* in the starting position and for Black in the position after 1. e4
C24_TwentyMovesAtStartAndAfterE4 ==
    LET e4 == Move(sq(6, 4), sq(4, 4), None, FALSE, FALSE)
        Twenty(listed) ==
            /\ ~listed.raised
            /\ Len(listed.moves) = 20
            /\ Cardinality({listed.moves[i] : i \in 1..Len(listed.moves)}) = 20
    IN  /\ (_move_history = <<>> /\ board = StartBoard) =>
               (board.turn = WHITE /\ Twenty(generate_legal_moves(board)))
        /\ (_move_history = <<e4>> /\ board = make_move(StartBoard, e4)) =>
               (board.turn = BLACK /\ Twenty(generate_legal_moves(board)))

C24_Witness ==
    /\ Len(_move_history) = 1
    /\ board = make_move(StartBoard, Move(sq(6, 4), sq(4, 4), None, FALSE, FALSE))
    /\ board.turn = BLACK
    /\ Len(generate_legal_moves(board).moves) = 20

\* C25: Move.from_uci signals a decode failure for every malformed text: one
\* whose length is not 4 or 5, whose file letters are outside a-h, whose rank
\* digits are outside 1-8, or whose fifth character is none of q, r, b, n
C25_MalformedTextIsRefused ==
    last.op = "from_uci" =>
        LET Malformed(text) ==
                \/ Len(text) \notin {4, 5}
                \/ \E i \in {1, 3} : text[i] \notin {"a", "b", "c", "d", "e", "f", "g", "h"}
                \/ \E i \in {2, 4} : text[i] \notin {"1", "2", "3", "4", "5", "6", "7", "8"}
                \/ (Len(text) = 5 /\ text[5] \notin {"q", "r", "b", "n"})
        IN  Malformed(last.text) => last.raised

\* C26: a node of the recursive search whose side to move has no legal move
\* scores -INF when White is to move and in check, +INF when Black is to
\* move and in check, and 0 when the side to move is not in check
C26_MatedNodeScoresAgainstSideToMove ==
    (last.op = "best_move" /\ ~last.raised /\ last.depth >= 1) =>
        LET Stated(child, node) ==
                NoLegalMoves(child) =>
                    /\ ~node.raised
                    /\ node.score =
                           IF ~is_in_check(child, child.turn) THEN 0
                           ELSE IF child.turn = WHITE THEN -_INF ELSE _INF
            Node(child) ==
                Stated(child, _search(child, last.depth - 1, -_INF, _INF, child.turn = WHITE))
        IN  \A e \in LegalEntries(board) : Node(make_move(board, e))

\* C27: in every position committed through GameState.make_move, whatever
\* the flags of the accepted move, both kings are on the board and the side
\* that is not to move is not in check
C27_CommittedPositionIsLegal ==
    [][(last'.op = "make_move" /\ last'.ret) =>
           /\ \A color \in {WHITE, BLACK} : find_king(board', color) # None
           /\ ~is_in_check(board', Opponent(board'.turn))]_vars

\* C28: the result recomputed after a committed move is decided by the first
\* test that matches, in the order no legal moves (checkmate or stalemate),
\* fifty-move clock, threefold repetition, insufficient material: a mate
\* that brings the clock to 100 is a win, and a third occurrence with the
\* clock at 100 or more is a fifty-move draw
C28_ResultPriority ==
    (last.op = "make_move" /\ last.ret) =>
        LET Decided(res, reason) == result = res /\ draw_reason = reason
        IN  IF NoLegalMoves(board)
            THEN IF is_in_check(board, board.turn)
                 THEN Decided(IF board.turn = WHITE THEN BLACK_WINS ELSE WHITE_WINS,
                              NoReason)
                 ELSE Decided(DRAW, STALEMATE)
            ELSE IF board.halfmove_clock >= 100 THEN Decided(DRAW, FIFTY_MOVE)
            ELSE IF Occurrences(board, hash_board(board)) >= 3
            THEN Decided(DRAW, THREEFOLD)
            ELSE IF _is_insufficient_material(Game) THEN Decided(DRAW, INSUFFICIENT)
            ELSE Decided(ONGOING, NoReason)

\* the hundredth quiet ply mates and the game is won, not drawn
C28_Witness ==
    /\ last.op = "make_move"
    /\ last.ret
    /\ board.halfmove_clock = 100
    /\ NoLegalMoves(board)
    /\ is_in_check(board, board.turn)
    /\ result = WHITE_WINS
    /\ draw_reason = NoReason

\* C29: for every position and depth >= 1, best_move returns the move that
\* the same search returns with pruning disabled (every child of every node
\* searched, same ordering, same terminal scores, the first move that
\* improves on the best score kept), and the score it holds for that move
\* is the exhaustive minimax score
C29_PruningKeepsMoveAndScore ==
    (last.op = "best_move" /\ ~last.raised /\ last.depth >= 1
        /\ evaluator = "material") =>
        LET maximizing == board.turn = WHITE
            Better(a, b) == IF maximizing THEN a > b ELSE a < b
            RECURSIVE Exhaustive(_, _, _), Children(_, _, _, _, _), Pick(_, _, _, _)
            Exhaustive(b, depth, maxi) ==
                LET Generated(gl) ==
                        IF gl.moves = <<>>
                        THEN IF is_in_check(b, b.turn)
                             THEN (IF maxi THEN _INF ELSE -_INF)
                             ELSE 0
                        ELSE IF depth = 0 THEN evaluate(b)
                        ELSE Children(b, depth, maxi, gl.moves, 1)
                IN  Generated(generate_legal_moves(b))
            Children(b, depth, maxi, moves, i) ==
                LET Joined(v, rest) == IF maxi THEN Max(v, rest) ELSE Min(v, rest)
                    Valued(v) ==
                        IF i = Len(moves) THEN v
                        ELSE Joined(v, Children(b, depth, maxi, moves, i + 1))
                IN  Valued(Exhaustive(make_move(b, moves[i]), depth - 1, ~maxi))
            \* the root loop over scores[i..]: the index and score kept
            Pick(scores, i, best, best_score) ==
                IF i > Len(scores) THEN [best |-> best, score |-> best_score]
                ELSE IF Better(scores[i], best_score)
                THEN Pick(scores, i + 1, i, scores[i])
                ELSE Pick(scores, i + 1, best, best_score)
            Stated(ordered, picked, found) ==
                /\ found.move = last.move
                /\ last.move = IF picked.best = 0 THEN NoMove ELSE ordered[picked.best]
                /\ found.score = picked.score
            Rooted(ordered) ==
                Stated(ordered,
                       Pick([i \in 1..Len(ordered) |->
                                Exhaustive(make_move(board, ordered[i]),
                                           last.depth - 1, ~maximizing)],
                            1, 0, IF maximizing THEN -_INF ELSE _INF),
                       best_move(board, last.depth))
        IN  LegalEntries(board) # {} =>
                Rooted(_order_moves(board, generate_legal_moves(board).moves))

\* a depth-2 search returned a move after fewer _search calls than the tree
\* has nodes: some subtree was pruned
C29_Witness ==
    /\ last.op = "best_move"
    /\ ~last.raised
    /\ last.depth = 2
    /\ last.move # NoMove
    /\ evaluator = "material"
    /\ LET RECURSIVE Nodes(_, _), Below(_, _, _, _)
           \* _search calls in the unpruned tree under b, b's own included
           Nodes(b, depth) ==
               LET Generated(gl) ==
                       IF gl.moves = <<>> \/ depth = 0 THEN 1
                       ELSE 1 + Below(b, depth, gl.moves, 1)
               IN  Generated(generate_legal_moves(b))
           Below(b, depth, moves, i) ==
               IF i > Len(moves) THEN 0
               ELSE Nodes(make_move(b, moves[i]), depth - 1)
                        + Below(b, depth, moves, i + 1)
       IN  nodes_searched < Below(board, last.depth, generate_legal_moves(board).moves, 1)

\* C30: when the evaluator raises during best_move, the board the caller is
\* left with is the board as it was before the call: squares, turn, castling
\* rights, en-passant square, clocks and undo stack
C30_FailedSearchRestoresBoard ==
    [][(last'.op = "best_move" /\ last'.raised) => board' = board]_vars

\* C31: while the game is ongoing and the side to move is played by the
\* searcher, a move is eventually committed for that side or the game ends.
\* _run_ai_move commits what best_move returns unless it is None, and a
\* search that returns None leaves the game as it was, so that the next
\* iteration of _cvc_loop repeats it: the session moves on exactly when the
\* search of an ongoing game returns a move
C31_SearcherEventuallyMoves ==
    (last.op = "best_move" /\ ~last.raised /\ result = ONGOING) =>
        \/ last.move # NoMove
        \/ best_move(board, last.depth).move # NoMove

\* C32: an "ai_move" message is sent for a move only when GameState.make_move
\* has just committed that move; none is sent for a move that was refused,
\* as when a side resigned while the search was running
C32_AnnouncedMoveWasCommitted ==
    [][(/\ searches' # searches
        /\ last'.op = "make_move"
        /\ "sent" \in DOMAIN last'
        /\ last'.sent = "ai_move")
           => /\ last'.ret
              /\ _move_history' = Append(_move_history, last'.move)]_vars

\* C33: in every position reached by committed moves, ep_square is set
\* exactly when the move just applied was a pawn push of two ranks, and then
\* it is the square the pawn passed over: on the pawn's file, empty, on the
\* third or sixth rank; a fresh game and every other move leave it unset
C33_EpSquareOnlyAfterDoublePush ==
    LET Stated(move, moved, ep) ==
            IF moved[2] = PAWN /\ Abs(row_of(move.to_sq) - row_of(move.from_sq)) = 2
            THEN /\ ep # None
                 /\ col_of(ep) = col_of(move.from_sq)
                 /\ 2 * row_of(ep) = row_of(move.from_sq) + row_of(move.to_sq)
                 /\ row_of(ep) \in {2, 5}
                 /\ board.squares[ep] = NoPiece
            ELSE ep = None
    IN  IF _move_history = <<>> THEN board.ep_square = None
        ELSE Stated(_move_history[Len(_move_history)],
                    board.squares[_move_history[Len(_move_history)].to_sq],
                    board.ep_square)

\* after 1. e4 e5 2. Bc4 the en-passant square set by e7-e5 is cleared
C33_Witness ==
    /\ Len(_move_history) = 3
    /\ uci(_move_history[2]) = <<"e", "7", "e", "5">>
    /\ board._history[3].ep_square = sq(2, 4)
    /\ board.ep_square = None

\* C34: in every position reached by moves applied through Board.make_move,
\* a castling right that is still true has the king and the rook of its
\* colour on their home squares: e1 and h1 for K, e1 and a1 for Q, e8 and h8
\* for k, e8 and a8 for q
C34_RightImpliesKingAndRookAtHome ==
    LET Owner(k) == IF k \in {"K", "Q"} THEN WHITE ELSE BLACK
        KingHome(k) == IF k \in {"K", "Q"} THEN sq(7, 4) ELSE sq(0, 4)
        RookHome(k) == CASE k = "K" -> sq(7, 7) [] k = "Q" -> sq(7, 0)
                         [] k = "k" -> sq(0, 7) [] k = "q" -> sq(0, 0)
    IN  \A k \in RightKeys :
            board.castling_rights[k] =>
                /\ board.squares[KingHome(k)] = <<Owner(k), KING>>
                /\ board.squares[RookHome(k)] = <<Owner(k), ROOK>>

\* black's rook has left a8: the long right is lost, the short one is kept
\* with the king on e8 and the rook on h8
C34_Witness ==
    /\ Len(_move_history) >= 1
    /\ board.castling_rights["k"]
    /\ ~board.castling_rights["q"]
    /\ board.squares[sq(0, 0)] = NoPiece
    /\ board.squares[sq(0, 4)] = <<BLACK, KING>>
    /\ board.squares[sq(0, 7)] = <<BLACK, ROOK>>

\* C35: Board.make_move sets halfmove_clock to 0 when the moved piece is a
\* pawn, when the destination square held a piece, or when the move is an
\* en-passant capture, and to the previous value plus one otherwise
C35_HalfmoveClock ==
    [][LET Stated(move, piece, captured) ==
               board'.halfmove_clock =
                   IF piece[2] = PAWN \/ captured # NoPiece \/ move.is_en_passant
                   THEN 0
                   ELSE board.halfmove_clock + 1
       IN  (last'.op = "make_move" /\ last'.ret) =>
               Stated(last'.move, board.squares[last'.move.from_sq],
                      board.squares[last'.move.to_sq])]_vars

\* a piece that is no pawn has captured after a quiet move: the clock went
\* from 1 back to 0
C35_Witness ==
    /\ Len(board._history) = 2
    /\ board._history[2].halfmove_clock = 1
    /\ board._history[2].captured # NoPiece
    /\ board.squares[board._history[2].move.to_sq][2] # PAWN
    /\ board.halfmove_clock = 0

\* C36: after n committed moves from a fresh game, White is to move exactly
\* when n is even, and fullmove_number is 1 + floor(n / 2)
C36_TurnAndFullmoveFollowPlyCount ==
    LET RECURSIVE Fresh(_)
        \* the position the game started from is the starting position
        Fresh(b) == IF b._history = <<>> THEN b = StartBoard
                    ELSE Fresh(undo_move(b))
        n == Len(_move_history)
    IN  Fresh(board) =>
            /\ Len(board._history) = n
            /\ (board.turn = WHITE) <=> (n % 2 = 0)
            /\ board.fullmove_number = 1 + n \div 2

\* after 1. e4 e5 2. Nf3 Black is to move in move 2
C36_Witness ==
    /\ Len(_move_history) = 3
    /\ uci(_move_history[1]) = <<"e", "2", "e", "4">>
    /\ uci(_move_history[3]) = <<"g", "1", "f", "3">>
    /\ board.turn = BLACK
    /\ board.fullmove_number = 2

\* C37: in every reachable GameState draw_reason is set (stalemate,
\* fifty_move, threefold or insufficient_material) exactly when result is
\* draw; it is absent while the game is ongoing and when a side has won by
\* checkmate or by resignation
C37_DrawReasonIffDraw ==
    /\ (draw_reason # NoReason) <=> (result = DRAW)
    /\ draw_reason \in {NoReason, STALEMATE, FIFTY_MOVE, THREEFOLD, INSUFFICIENT}
    /\ result \in {ONGOING, DRAW, WHITE_WINS, BLACK_WINS}

\* a resignation has been attempted on a game drawn by stalemate and has left
\* the draw and its reason in place
C37_Witness ==
    /\ last.op = "resign"
    /\ result = DRAW
    /\ draw_reason = STALEMATE
    /\ resignation = None

\* C38: in the list _order_moves leaves, every capturing move (destination
\* held by an enemy piece, whatever the attacker, or en-passant capture)
\* precedes every move that captures nothing, and the captures are in
\* descending order of victim value * 10 - attacker value
C38_CapturesFirstByVictimAndAttacker ==
    (last.op = "best_move" /\ ~last.raised /\ last.depth >= 1) =>
        LET Value(piece) == _PIECE_SORT_VALUE[piece[2] + 1]
            Captures(move) ==
                board.squares[move.to_sq] # NoPiece \/ move.is_en_passant
            Gain(move) ==
                (IF move.is_en_passant THEN Value(<<Opponent(board.turn), PAWN>>)
                 ELSE Value(board.squares[move.to_sq])) * 10
                    - Value(board.squares[move.from_sq])
            Stated(ordered) ==
                \A i, j \in 1..Len(ordered) :
                    /\ (Captures(ordered[i]) /\ ~Captures(ordered[j])) => i < j
                    /\ (Captures(ordered[i]) /\ Captures(ordered[j]) /\ i < j)
                           => Gain(ordered[i]) >= Gain(ordered[j])
        IN  Stated(_order_moves(board, generate_legal_moves(board).moves))

\* C39: on a position with a legal move and with one evaluator, the search
\* one ply deeper leaves nodes_searched at least as large as the shallower
\* search left it, and strictly larger when some root move leaves the
\* opponent a legal reply
C39_DeeperSearchVisitsNoFewerNodes ==
    [][(/\ last.op = "best_move" /\ ~last.raised
        /\ last'.op = "best_move" /\ ~last'.raised
        /\ last'.depth = last.depth + 1
        /\ board' = board /\ evaluator' = evaluator
        /\ LegalEntries(board) # {})
           => /\ nodes_searched' >= nodes_searched
              /\ (\E e \in LegalEntries(board) :
                      LegalEntries(make_move(board, e)) # {})
                     => nodes_searched' > nodes_searched]_vars

\* C40: hash_board depends only on the pieces on the 64 squares, the side to
\* move, the four castling rights and the file of ep_square when it is set:
\* a board reached earlier in the game, or one that differs in
\* halfmove_clock, fullmove_number, undo history or the rank of ep_square
\* only, has the same hash whenever it agrees in these components
C40_HashDependsOnPositionOnly ==
    LET Components(b) ==
            <<b.squares, b.turn, b.castling_rights,
              IF b.ep_square = None THEN None ELSE b.ep_square % 8>>
        RECURSIVE Earlier(_)
        \* the boards the game has been through
        Earlier(b) == IF b._history = <<>> THEN {b}
                      ELSE {b} \cup Earlier(undo_move(b))
        Restamped ==
            {[board EXCEPT !.halfmove_clock = clock, !.fullmove_number = number,
                           !._history = <<>>,
                           !.ep_square = IF @ = None THEN None
                                         ELSE rank * 8 + (@ % 8)] :
                clock \in {0, 99}, number \in {1, 50}, rank \in {2, 5}}
    IN  \A b \in Earlier(board) \cup Restamped :
            Components(b) = Components(board) => hash_board(b) = hash_board(board)

\* the knights have gone out and come back: the starting position again,
\* with four plies on the clock and a history
C40_Witness ==
    /\ Len(_move_history) = 4
    /\ board.squares = StartBoard.squares
    /\ board.turn = StartBoard.turn
    /\ board.halfmove_clock = 4
    /\ board.fullmove_number = 3
    /\ board # StartBoard
    /\ hash_board(board) = hash_board(StartBoard)

====
